---------------------------- MODULE Spec2Model ----------------------------
(***************************************************************************)
(* A model of the MGIS automated framework:                                *)
(*   - QAGenerator / QAOutputManager  (src/processing/qa_generator.py)     *)
(*   - PDFProcessor                   (src/processing/pdf_processor.py)    *)
(*                                                                         *)
(* Python strings are sequences of one-character strings; Python dicts are *)
(* functions whose DOMAIN is the set of keys present.                      *)
(*                                                                         *)
(* Two specifications share the module:                                    *)
(*   SpecGen : repeated QAGenerator.process_content calls on one generator *)
(*   SpecPdf : repeated PDFProcessor.process_directory calls on one        *)
(*             processor, with its ThreadPoolExecutor workers interleaved  *)
(***************************************************************************)
EXTENDS Integers, Sequences, FiniteSets, TLC

(***************************************************************************)
(* Strings                                                                 *)
(***************************************************************************)

\* str.strip() / str.split() treat these as whitespace
Whitespace == {" ", "\n", "\t"}

RECURSIVE LStrip(_)
\* str.lstrip()
LStrip(s) ==
    IF s = <<>> THEN <<>>
    ELSE IF Head(s) \in Whitespace THEN LStrip(Tail(s)) ELSE s

RECURSIVE RStrip(_)
\* str.rstrip()
RStrip(s) ==
    IF s = <<>> THEN <<>>
    ELSE IF s[Len(s)] \in Whitespace THEN RStrip(SubSeq(s, 1, Len(s) - 1)) ELSE s

\* str.strip()
Strip(s) == RStrip(LStrip(s))

\* s.startswith(p)
StartsWith(s, p) == Len(s) >= Len(p) /\ SubSeq(s, 1, Len(p)) = p

\* s.endswith(p)
EndsWith(s, p) == Len(s) >= Len(p) /\ SubSeq(s, Len(s) - Len(p) + 1, Len(s)) = p

\* sub in s
Contains(s, sub) ==
    \E i \in 1..(Len(s) - Len(sub) + 1) : SubSeq(s, i, i + Len(sub) - 1) = sub

\* s.split(sep) for a one-character separator: the pieces between the
\* separators, the first one behind what was read before s began (cur)
SplitAcc(s, sep, cur) ==
    LET seps == {i \in 1..Len(s) : s[i] = sep}
        n == Cardinality(seps)
        At(k) == IF k = 0 THEN 0
                 ELSE IF k = n + 1 THEN Len(s) + 1
                 ELSE CHOOSE i \in seps : Cardinality({j \in seps : j < i}) = k - 1
    IN  [k \in 1..(n + 1) |->
            (IF k = 1 THEN cur ELSE <<>>) \o SubSeq(s, At(k - 1) + 1, At(k) - 1)]

\* s.split('\n')
SplitLines(s) == SplitAcc(s, "\n", <<>>)

RECURSIVE Join(_, _)
\* sep.join(parts)
Join(sep, parts) ==
    IF parts = <<>> THEN <<>>
    ELSE IF Len(parts) = 1 THEN parts[1]
    ELSE parts[1] \o sep \o Join(sep, Tail(parts))

\* len(s.split()): the number of maximal runs of non-whitespace characters,
\* counted by their first characters (inWord: a run is open where s begins)
WordCount(s, inWord) ==
    Cardinality({i \in 1..Len(s) :
                    /\ s[i] \notin Whitespace
                    /\ IF i = 1 THEN ~inWord ELSE s[i - 1] \in Whitespace})

\* QAOutputManager.count_text_stats
count_text_stats(text) ==
    [characters |-> Len(text), words |-> WordCount(text, FALSE)]

(***************************************************************************)
(* QAGenerator.parse_qa_response                                           *)
(***************************************************************************)

\* mutation of PromptTypes: the alternative pass first
PromptTypes_reversed == <<"alternative", "default">>

\* the two passes of lines 366 and 370, in call order
PromptTypes == <<"default", "alternative">>
PromptTypeSet == {"default", "alternative"}

\* Python's None for current_q / current_a, and a held string
None == [some |-> FALSE, v |-> <<>>]
Some(s) == [some |-> TRUE, v |-> s]
\* truthiness of an Optional[str]: neither None nor ""
Truthy(o) == o.some /\ o.v # <<>>

QMark == <<"?">>
RParen == <<")">>
BasedOn == <<"b", "a", "s", "e", "d", " ", "o", "n">>
AsPer == <<"a", "s", " ", "p", "e", "r">>
QPrefix == <<"Q", ":">>
APrefix == <<"A", ":">>

\* mutation of AcceptPair: the default gate no longer asks for the '?'
AcceptPair_noQuestionMark(q, a, prompt_type) ==
    \/ prompt_type = "alternative"
    \/ /\ prompt_type = "default"
       /\ (Contains(q, BasedOn) \/ Contains(q, AsPer))
       /\ EndsWith(a, RParen)

\* the validation gate of lines 205-210 and 222-227
AcceptPair(q, a, prompt_type) ==
    \/ prompt_type = "alternative"
    \/ /\ prompt_type = "default"
       /\ EndsWith(q, QMark)
       /\ (Contains(q, BasedOn) \/ Contains(q, AsPer))
       /\ EndsWith(a, RParen)

\* lines 203-214 / 220-231: append the pending pair when it is complete and valid
Flush(qa_pairs, current_q, current_a, prompt_type) ==
    IF Truthy(current_q) /\ Truthy(current_a)
          /\ AcceptPair(current_q.v, current_a.v, prompt_type)
    THEN Append(qa_pairs, [question |-> current_q.v, answer |-> current_a.v])
    ELSE qa_pairs

\* line 199: the trimmed non-empty lines
RECURSIVE NonEmptyStripped(_)
NonEmptyStripped(ls) ==
    IF ls = <<>> THEN <<>>
    ELSE IF Strip(Head(ls)) # <<>>
         THEN <<Strip(Head(ls))>> \o NonEmptyStripped(Tail(ls))
         ELSE NonEmptyStripped(Tail(ls))

\* mutation of AnswerAfterQ: the pending answer survives a 'Q:' line
AnswerAfterQ_kept(current_a) == current_a

\* line 216: current_a = None once a 'Q:' line opened a new question
AnswerAfterQ(current_a) == None

RECURSIVE ParseLoop(_, _, _, _, _)
\* lines 201-231: the loop over the lines, then the trailing flush
ParseLoop(lines, qa_pairs, current_q, current_a, prompt_type) ==
    IF lines = <<>> THEN Flush(qa_pairs, current_q, current_a, prompt_type)
    ELSE LET line == Head(lines) IN
         IF StartsWith(line, QPrefix)
         THEN ParseLoop(Tail(lines),
                        Flush(qa_pairs, current_q, current_a, prompt_type),
                        Some(Strip(SubSeq(line, 3, Len(line)))),
                        AnswerAfterQ(current_a), prompt_type)
         ELSE IF StartsWith(line, APrefix)
         THEN ParseLoop(Tail(lines), qa_pairs, current_q,
                        Some(Strip(SubSeq(line, 3, Len(line)))), prompt_type)
         ELSE ParseLoop(Tail(lines), qa_pairs, current_q, current_a, prompt_type)

parse_qa_response(response_text, prompt_type) ==
    ParseLoop(NonEmptyStripped(SplitLines(response_text)), <<>>, None, None,
              prompt_type)

(***************************************************************************)
(* Configuration and inputs of the generation phase                        *)
(***************************************************************************)

\* largest ollama.retries the configuration is drawn from
MaxRetries == 3
\* ollama.retry_delay of the configuration
RetryDelay == 2
\* number of process_content calls made on the one generator
MaxCalls == 2

\* config.keywords, in configuration order
Fee == <<"f", "e", "e">>
Tax == <<"t", "a", "x">>
config_keywords == <<Fee, Tax>>

\* one occurrence as PDFProcessor._create_metadata builds it
Occ(doc_id) ==
    [source_file |-> doc_id,
     location |-> [page_number |-> <<"o", "n", "e">>, line_number |-> <<"o", "n", "e">>],
     content |-> [selected_text |-> <<"f", "e", "e">>,
                  full_extracted_part |-> <<"f", "e", "e", " ", "t", "a", "x">>],
     extraction_timestamp |-> "now"]

\* f"doc_{n:03d}": the formatting is injective on the counter value
DocId(n) == <<"doc", n>>

\* a corpus result as process_directory returns it: doc_001 mentions both
\* keywords, doc_002 only the second
CorpusInput ==
    [kind |-> "corpus", findings |-> <<>>,
     docs |-> << [doc_id |-> DocId(1), original_filename |-> "a.pdf",
                  findings |-> (Fee :> <<Occ(DocId(1))>> @@ Tax :> <<Occ(DocId(1))>>)],
                 [doc_id |-> DocId(2), original_filename |-> "b.pdf",
                  findings |-> (Tax :> <<Occ(DocId(2))>>)] >>]

\* the bare findings map process_single_pdf returns (main --single-file)
SingleInput ==
    [kind |-> "single", findings |-> (Fee :> <<Occ(DocId(1))>>), docs |-> <<>>]

\* an empty result
EmptyInput == [kind |-> "corpus", findings |-> <<>>, docs |-> <<>>]

GenInputs == {CorpusInput, SingleInput, EmptyInput}

\* response texts the service may return in the 'response' field
TextBoth ==
    <<"Q", ":", " ", "a", "s", " ", "p", "e", "r", "?", "\n",
      "A", ":", " ", "y", ")", "\n",
      "Q", ":", " ", "w", "\n",
      "A", ":", " ", "v">>
TextNone == <<"Q", ":", " ", "w">>
TextBlank == <<" ", "\n">>
TextEmpty == <<>>
Texts == {TextBoth, TextNone, TextBlank, TextEmpty}

\* what one session.post can do: answer with a status and a body, or raise
Outcomes ==
    [kind : {"response"}, status : {200}, text : Texts]
    \cup [kind : {"response"}, status : {500}, text : {TextEmpty}]
    \cup [kind : {"ReadTimeout", "ConnectionError", "Exception"},
          status : {0}, text : {TextEmpty}]
NoOutcome == [kind |-> "none", status |-> 0, text |-> TextEmpty]

(***************************************************************************)
(* State                                                                   *)
(***************************************************************************)
VARIABLES
    retries,            \* config.ollama.retries
    retry_delay,        \* config.ollama.retry_delay
    processed_sections, \* QAGenerator.processed_sections
    qa_text,            \* per prompt type: QAOutputManager.qa_text
    qa_text_keys,       \* per prompt type: insertion order of qa_text's keys
    qa_json,            \* per prompt type: QAOutputManager.qa_json
    doc_stats,          \* per prompt type: QAOutputManager.doc_stats
    files,              \* per prompt type: the files written under get_output_dir()
    pc,                 \* position of the generator's single thread
    masked_content,     \* process_content's (wrapped) argument, in dict order
    doc_idx,            \* index of the document of the for loop of line 358
    pt_idx,             \* 1: the default pass of line 366, 2: the alternative pass
    kw_idx,             \* index of the keyword of the for loop of line 301
    has_content,        \* process_document_keywords' local
    retry_count,        \* generate_qa_pairs' local
    outcome,            \* what the session.post of the current attempt did
    qa_pairs,           \* what generate_qa_pairs returned
    requests,           \* session.post calls of the current generate_qa_pairs call
    sleeps,             \* time.sleep delays of the current generate_qa_pairs call
    calls,              \* process_content calls made so far
    save_log,           \* the save_doc_outputs / save_combined_outputs calls of
                        \* the current process_content call, in order
    attempted,          \* the units handed to generate_qa_pairs in the current
                        \* process_content call
    max_workers,        \* config.processing.max_workers
    contents,           \* the storage: the document behind every path
    processed_files,    \* PDFProcessor.processed_files
    combined_results,   \* PDFProcessor.combined_results
    file_counter,       \* PDFProcessor.file_counter
    dir_pc,             \* position of the thread inside process_directory
    pdf_files,          \* process_directory's sorted listing
    sub_idx,            \* index of the path the comprehension of line 206 is at
    col_idx,            \* index of the future the loop of line 212 is at
    tasks,              \* future_to_path in submission order, with each
                        \* process_single_pdf call's position and locals
    open_handles,       \* the tasks whose fitz document is open
    assigned,           \* the ids _generate_doc_id returned to the current
                        \* process_directory call, in order, each with the
                        \* path it was returned for
    logged_errors,      \* the paths logged at line 218 in the current call
    saved,              \* what combined_masked.json holds
    returned,           \* how the last process_directory call ended
    dir_calls,          \* process_directory calls made so far
    page_blocks,        \* page.get_text("dict")["blocks"] of the page at hand
    page_pc,            \* which function was applied to the page
    page_keyword,       \* _find_keyword_context's keyword argument
    page_block_idx,     \* _find_keyword_context's current_block_idx argument
    window,             \* what _find_keyword_context returned
    page_result,        \* what the loops of process_single_pdf produced
    parse_input,        \* a response text handed to parse_qa_response
    parse_output,       \* per prompt type: what parse_qa_response returned
    main_config,        \* what the configuration file of a run of main holds
    main_args,          \* the command line of the run
    main_pc,            \* position of main
    main_read,          \* documents read and extracted so far in the run
    main_found,         \* how many of them produced findings
    main_requested,     \* was a generation request issued in the run
    main_raised,        \* the exception main ended with, "none" without one
    mask_input,         \* a text handed to mask_sensitive_info
    mask_text,          \* the local text of mask_sensitive_info
    mask_pc,            \* the statement of mask_sensitive_info to run next
    mask_pass,          \* 1: masking mask_input, 2: masking the result again
    mask_first,         \* what the first call returned
    mask_applied,       \* the rules whose statement ran in the current call
    block_arg,          \* a block handed to _get_block_text
    block_pc,           \* has _get_block_text returned
    block_text,         \* what _get_block_text returned
    prompt_content,     \* the occurrences handed to generate_prompt
    prompt_pc,          \* has generate_prompt returned
    prompt_out          \* what generate_prompt returned

genVars ==
    <<retries, retry_delay, processed_sections, qa_text, qa_text_keys, qa_json,
      doc_stats, files, pc, masked_content, doc_idx, pt_idx, kw_idx, has_content,
      retry_count, outcome, qa_pairs, requests, sleeps, calls, save_log,
      attempted>>

pdfVars ==
    <<max_workers, contents, processed_files, combined_results, file_counter,
      dir_pc, pdf_files, sub_idx, col_idx, tasks, open_handles, assigned,
      logged_errors, saved, returned, dir_calls>>

\* one page handed to the extraction functions on their own
pageVars ==
    <<page_blocks, page_pc, page_keyword, page_block_idx, window, page_result>>

\* one response text handed to parse_qa_response on its own
parseVars == <<parse_input, parse_output>>

\* one run of main
mainVars ==
    <<main_config, main_args, main_pc, main_read, main_found, main_requested,
      main_raised>>

\* one text handed to mask_sensitive_info, and its result handed to it again
maskVars ==
    <<mask_input, mask_text, mask_pc, mask_pass, mask_first, mask_applied>>

\* one block handed to _get_block_text
blockVars == <<block_arg, block_pc, block_text>>

\* one list of occurrences handed to generate_prompt
promptVars == <<prompt_content, prompt_pc, prompt_out>>

\* the variables of the specifications of single functions and of main
fnVars == <<pageVars, parseVars, mainVars, maskVars, blockVars, promptVars>>

vars == <<genVars, pdfVars, blockVars, promptVars, fnVars>>

EmptyDict == [k \in {} |-> <<>>]

\* the managers' accumulators, left alone
outputVars == <<qa_text, qa_text_keys, qa_json, doc_stats, files>>
\* generate_qa_pairs' locals and its call log
attemptVars == <<retry_count, outcome, qa_pairs, requests, sleeps>>
\* the loop positions of process_content / process_document_keywords
loopVars == <<masked_content, doc_idx, pt_idx, kw_idx, has_content>>
configVars == <<retries, retry_delay>>

\* the document, prompt type and keyword the loops are at
CurDoc == masked_content[doc_idx]
CurType == PromptTypes[pt_idx]
CurKeyword == config_keywords[kw_idx]

\* line 305: f"{doc_id}|{keyword}|{prompt_type}"; doc ids hold no '|' and the
\* prompt type is one of two fixed words, so the key determines its three parts
checkpoint_key(doc_id, keyword, prompt_type) == <<doc_id, keyword, prompt_type>>

\* QAGenerator._get_policy_doc_name: "[POLICY_DOC_NNN]" from the id's number
_get_policy_doc_name(doc_id) == <<"POLICY_DOC", doc_id[2]>>

\* QAGenerator.__init__, before any call
GenStart ==
    /\ retry_delay = RetryDelay
    /\ processed_sections = {}
    /\ qa_text = [t \in PromptTypeSet |-> EmptyDict]
    /\ qa_text_keys = [t \in PromptTypeSet |-> <<>>]
    /\ qa_json = [t \in PromptTypeSet |-> EmptyDict]
    /\ doc_stats = [t \in PromptTypeSet |-> EmptyDict]
    /\ files = [t \in PromptTypeSet |-> EmptyDict]
    /\ pc = "idle"
    /\ masked_content = <<>>
    /\ doc_idx = 0
    /\ pt_idx = 0
    /\ kw_idx = 0
    /\ has_content = FALSE
    /\ retry_count = 0
    /\ outcome = NoOutcome
    /\ qa_pairs = <<>>
    /\ requests = 0
    /\ sleeps = <<>>
    /\ calls = 0
    /\ save_log = <<>>
    /\ attempted = {}

\* PDFProcessor.__init__ (lines 40-46), before any call
PdfStart ==
    /\ processed_files = {}
    /\ combined_results = EmptyDict
    /\ file_counter = 1
    /\ dir_pc = "idle"
    /\ pdf_files = <<>>
    /\ sub_idx = 0
    /\ col_idx = 0
    /\ tasks = <<>>
    /\ open_handles = {}
    /\ assigned = <<>>
    /\ logged_errors = {}
    /\ saved = EmptyDict
    /\ returned = "none"
    /\ dir_calls = 0

\* no page at hand
PageStart ==
    /\ page_blocks = <<>>
    /\ page_pc = "idle"
    /\ page_keyword = <<>>
    /\ page_block_idx = 0
    /\ window = [raised |-> FALSE, found |-> FALSE, text |-> <<>>, part_idx |-> <<>>]
    /\ page_result = [raised |-> FALSE, findings |-> EmptyDict]

\* no response text at hand
NotParsed == [done |-> FALSE, pairs |-> <<>>]
ParseStart ==
    /\ parse_input = <<>>
    /\ parse_output = [t \in PromptTypeSet |-> NotParsed]

\* no run of main
NoConfig ==
    [keywords |-> TRUE, default_prompt |-> "set", provider |-> "local",
     gcp_ids |-> TRUE]
NoArgs == [single_file |-> FALSE, files |-> 0]
MainStart ==
    /\ main_config = NoConfig
    /\ main_args = NoArgs
    /\ main_pc = "none"
    /\ main_read = 0
    /\ main_found = 0
    /\ main_requested = FALSE
    /\ main_raised = "none"

\* no text at hand
MaskStart ==
    /\ mask_input = <<>>
    /\ mask_text = <<>>
    /\ mask_pc = 0
    /\ mask_pass = 0
    /\ mask_first = <<>>
    /\ mask_applied = <<>>

\* no block at hand
BlockStart ==
    /\ block_arg = [has_lines |-> FALSE, lines |-> <<>>]
    /\ block_pc = "none"
    /\ block_text = <<>>

\* no occurrences at hand
PromptStart ==
    /\ prompt_content = <<>>
    /\ prompt_pc = "none"
    /\ prompt_out = [raised |-> FALSE, text |-> <<>>, prompt_type |-> "default"]

\* the generation phase: any retry budget, an untouched processor
InitGen ==
    /\ retries \in 0..MaxRetries
    /\ GenStart
    /\ PageStart
    /\ ParseStart
    /\ MainStart
    /\ MaskStart
    /\ BlockStart
    /\ PromptStart
    /\ max_workers = 1
    /\ contents = [p \in {} |-> <<>>]
    /\ PdfStart

(***************************************************************************)
(* QAOutputManager                                                         *)
(***************************************************************************)

\* the "\n<EOS>\n" delimiter of lines 61 and 109
EOS == <<"\n", "<", "E", "O", "S", ">", "\n">>
QLabel == <<"Q", ":", " ">>
ALabel == <<"\n", "A", ":", " ">>

\* line 327: f"Q: {qa['question']}\nA: {qa['answer']}"
QAText(qa) == QLabel \o qa.question \o ALabel \o qa.answer

\* d[k] = v on a dict
DictSet(d, k, v) == [x \in DOMAIN d \cup {k} |-> IF x = k THEN v ELSE d[x]]

\* QAOutputManager.add_qa_pair, applied to one manager's qa_text
add_qa_pair(text, doc_id, entry) ==
    DictSet(text, doc_id,
            Append(IF doc_id \in DOMAIN text THEN text[doc_id] ELSE <<>>, entry))

\* mutation of AddAll: only the first pair of a result reaches the text
AddAll_firstOnly(text, doc_id, pairs) ==
    IF pairs = <<>> THEN text ELSE add_qa_pair(text, doc_id, QAText(Head(pairs)))

RECURSIVE AddAll(_, _, _)
\* lines 326-328: add_qa_pair for every pair, in order
AddAll(text, doc_id, pairs) ==
    IF pairs = <<>> THEN text
    ELSE AddAll(add_qa_pair(text, doc_id, QAText(Head(pairs))), doc_id, Tail(pairs))

\* QAOutputManager.add_keyword_content, applied to one manager's qa_json
add_keyword_content(json, policy_doc_name, keyword, pairs, content, original_filename) ==
    DictSet(json, policy_doc_name,
            DictSet(IF policy_doc_name \in DOMAIN json
                    THEN json[policy_doc_name] ELSE EmptyDict,
                    keyword,
                    [qa_pairs |-> pairs, content |-> content,
                     original_filename |-> original_filename]))

\* line 54: save_doc_outputs returns at once without accumulated text
HasText(t, doc_id) == doc_id \in DOMAIN qa_text[t] /\ qa_text[t][doc_id] # <<>>

\* mutation of DocStats: the statistics of the newest entry alone
DocStats_lastEntryOnly(t, doc_id) ==
    count_text_stats(qa_text[t][doc_id][Len(qa_text[t][doc_id])])

\* lines 61-62: the statistics of the document's joined text
DocStats(t, doc_id) == count_text_stats(Join(EOS, qa_text[t][doc_id]))

\* file names are <<stem, suffix>>: f"{doc_id}_qa.txt", "combined_qa.json", ...;
\* the stem of the combined files, a pair like a document id
Combined == <<"combined", 0>>

\* lines 65-85: the files save_doc_outputs writes for one document
DocFiles(t, doc_id, policy_doc_name) ==
    LET txt == DictSet(files[t], <<doc_id, "qa.txt">>, Join(EOS, qa_text[t][doc_id]))
    IN  IF policy_doc_name \in DOMAIN qa_json[t]
        THEN DictSet(txt, <<doc_id, "qa.json">>,
                     [doc |-> qa_json[t][policy_doc_name],
                      statistics |-> DocStats(t, doc_id)])
        ELSE txt

RECURSIVE SumStats(_, _)
\* lines 96-99: the sum of the per-document statistics
SumStats(stats, keys) ==
    IF keys = {} THEN [characters |-> 0, words |-> 0]
    ELSE LET k == CHOOSE x \in keys : TRUE
             rest == SumStats(stats, keys \ {k})
         IN  [characters |-> stats[k].characters + rest.characters,
              words |-> stats[k].words + rest.words]

RECURSIVE AllTexts(_, _)
\* lines 102-104: every document's entries, in qa_text's key order
AllTexts(text, keys) ==
    IF keys = <<>> THEN <<>>
    ELSE text[Head(keys)] \o AllTexts(text, Tail(keys))

\* QAOutputManager.save_combined_outputs: the manager's files afterwards
save_combined_outputs(t) ==
    IF DOMAIN qa_json[t] = {} THEN files[t]
    ELSE LET total_stats == SumStats(doc_stats[t], DOMAIN doc_stats[t])
             all_qa_texts == AllTexts(qa_text[t], qa_text_keys[t])
             txt == IF all_qa_texts # <<>>
                    THEN DictSet(files[t], <<Combined, "qa.txt">>,
                                 Join(EOS, all_qa_texts))
                    ELSE files[t]
         IN  DictSet(txt, <<Combined, "qa.json">>,
                     [documents |-> qa_json[t],
                      statistics |-> [per_document |-> doc_stats[t],
                                      total |-> total_stats]])

(***************************************************************************)
(* QAGenerator.process_content                                             *)
(***************************************************************************)

\* lines 344-352: a bare findings map is wrapped as document doc_001
Wrap(arg) ==
    IF arg.kind = "single"
    THEN << [doc_id |-> DocId(1), original_filename |-> "single_file.pdf",
             findings |-> arg.findings] >>
    ELSE arg.docs

\* lines 337-356: the call, up to the first iteration of the document loop
process_content(arg) ==
    /\ pc = "idle"
    /\ calls < MaxCalls
    /\ calls' = calls + 1
    /\ save_log' = <<>>
    /\ attempted' = {}
    /\ IF (arg.kind = "single" /\ DOMAIN arg.findings = {})
          \/ (arg.kind = "corpus" /\ arg.docs = <<>>)
       THEN UNCHANGED <<pc, loopVars>>
       ELSE /\ masked_content' = Wrap(arg)
            /\ doc_idx' = 1
            /\ pt_idx' = 1
            /\ kw_idx' = 1
            /\ has_content' = FALSE
            /\ pc' = "keyword"
    /\ UNCHANGED <<pdfVars, fnVars, configVars, processed_sections, outputVars, attemptVars>>

(***************************************************************************)
(* QAGenerator.process_document_keywords                                   *)
(***************************************************************************)

AtKeyword == pc = "keyword" /\ kw_idx <= Len(config_keywords)

\* lines 302-303 and 313: a keyword without findings is passed over
ContinueKeyword ==
    /\ AtKeyword
    /\ \/ CurKeyword \notin DOMAIN CurDoc.findings
       \/ /\ CurKeyword \in DOMAIN CurDoc.findings
          /\ checkpoint_key(CurDoc.doc_id, CurKeyword, CurType) \notin processed_sections
          /\ CurDoc.findings[CurKeyword] = <<>>
    /\ kw_idx' = kw_idx + 1
    /\ UNCHANGED <<pdfVars, fnVars, configVars, processed_sections, outputVars, attemptVars, pc,
                   masked_content, doc_idx, pt_idx, has_content, calls, save_log,
                   attempted>>

\* mutation of IsProcessed: the key is looked up without its prompt type
IsProcessed_ignoresType(doc_id, keyword, prompt_type) ==
    checkpoint_key(doc_id, keyword, "default") \in processed_sections

\* mutation of IsProcessed: a unit counts as complete when the document and
\* keyword are complete under either prompt type
IsProcessed_eitherType(doc_id, keyword, prompt_type) ==
    \E t \in PromptTypeSet : checkpoint_key(doc_id, keyword, t) \in processed_sections

\* line 306: is the unit's key in the completed set
IsProcessed(doc_id, keyword, prompt_type) ==
    checkpoint_key(doc_id, keyword, prompt_type) \in processed_sections

\* lines 305-308: a unit of the completed set is skipped
SkipProcessed ==
    /\ AtKeyword
    /\ CurKeyword \in DOMAIN CurDoc.findings
    /\ IsProcessed(CurDoc.doc_id, CurKeyword, CurType)
    /\ kw_idx' = kw_idx + 1
    /\ UNCHANGED <<pdfVars, fnVars, configVars, processed_sections, outputVars, attemptVars, pc,
                   masked_content, doc_idx, pt_idx, has_content, calls, save_log,
                   attempted>>

\* lines 310-315 and 238-244: generate_qa_pairs is entered
StartGenerate ==
    /\ AtKeyword
    /\ CurKeyword \in DOMAIN CurDoc.findings
    /\ ~IsProcessed(CurDoc.doc_id, CurKeyword, CurType)
    /\ CurDoc.findings[CurKeyword] # <<>>
    /\ retry_count' = 0
    /\ outcome' = NoOutcome
    /\ qa_pairs' = <<>>
    /\ requests' = 0
    /\ sleeps' = <<>>
    /\ pc' = "attempting"
    /\ UNCHANGED <<pdfVars, fnVars, configVars, processed_sections, outputVars, loopVars, calls,
                   save_log>>
    /\ attempted' = attempted \cup {checkpoint_key(CurDoc.doc_id, CurKeyword, CurType)}

(***************************************************************************)
(* QAGenerator.generate_qa_pairs: the retry loop                           *)
(***************************************************************************)

\* mutation of LoopCondition: one attempt too many
LoopCondition_offByOne(count) == count <= retries

\* line 246: the while condition
LoopCondition(count) == count < retries

\* mutation of IsSuccess: the emptiness test of line 263 is lost
IsSuccess_anyBody(o) == o.kind = "response" /\ o.status = 200

\* lines 261-263: status 200 and a response text that is non-empty once stripped
IsSuccess(o) ==
    o.kind = "response" /\ o.status = 200 /\ Strip(o.text) # <<>>

\* mutation of BackoffDelay: the attempt number is not advanced by one
BackoffDelay_noIncrement(count) == retry_delay * count

\* line 281: the progressive delay, computed after retry_count was incremented
BackoffDelay(count) == retry_delay * (count + 1)

\* mutation of AfterFailure: the except clause of line 276 is lost and the
\* exception leaves generate_qa_pairs
AfterFailure_uncaught(o) == IF o.kind = "Exception" THEN "raised" ELSE "retrying"

\* lines 266-277: an empty body and a non-200 status are logged, every exception
\* is caught and logged; all of them fall to line 279
AfterFailure(o) == "retrying"

\* lines 246-277: one attempt; a success returns what parse_qa_response accepts,
\* every other outcome is logged and falls to line 279
Post ==
    /\ pc = "attempting"
    /\ LoopCondition(retry_count)
    /\ \E o \in Outcomes :
          /\ outcome' = o
          /\ IF IsSuccess(o)
             THEN /\ qa_pairs' = parse_qa_response(Strip(o.text), CurType)
                  /\ pc' = "success"
             ELSE /\ qa_pairs' = qa_pairs
                  /\ pc' = AfterFailure(o)
    /\ requests' = requests + 1
    /\ UNCHANGED <<pdfVars, fnVars, configVars, processed_sections, outputVars, loopVars,
                   retry_count, sleeps, calls, save_log,
                   attempted>>

\* lines 279-283: count the failed attempt and sleep when another one follows
Retry ==
    /\ pc = "retrying"
    /\ retry_count' = retry_count + 1
    /\ sleeps' = IF retry_count + 1 < retries
                 THEN Append(sleeps, BackoffDelay(retry_count + 1))
                 ELSE sleeps
    /\ outcome' = NoOutcome
    /\ pc' = "attempting"
    /\ UNCHANGED <<pdfVars, fnVars, configVars, processed_sections, outputVars, loopVars,
                   qa_pairs, requests, calls, save_log,
                   attempted>>

\* lines 285-286: the loop ended without a success
Exhausted ==
    /\ pc = "attempting"
    /\ ~LoopCondition(retry_count)
    /\ qa_pairs' = <<>>
    /\ pc' = "exhausted"
    /\ UNCHANGED <<pdfVars, fnVars, configVars, processed_sections, outputVars, loopVars,
                   retry_count, outcome, requests, sleeps, calls, save_log,
                   attempted>>

\* mutation of MarkProcessed: line 330 is lost
MarkProcessed_never(sections, key, pairs) == sections

\* mutation of MarkProcessed: line 330 outside the test of line 317
MarkProcessed_always(sections, key, pairs) == sections \cup {key}

\* lines 317 and 330: the key joins the completed set with a non-empty result
MarkProcessed(sections, key, pairs) ==
    IF pairs # <<>> THEN sections \cup {key} ELSE sections

\* lines 317-330: back in process_document_keywords with the returned pairs
Record ==
    /\ pc \in {"success", "exhausted"}
    /\ LET t == CurType
           doc_id == CurDoc.doc_id
           policy_doc_name == _get_policy_doc_name(doc_id)
       IN  /\ IF qa_pairs # <<>>
              THEN /\ has_content' = TRUE
                   /\ qa_json' = [qa_json EXCEPT ![t] =
                          add_keyword_content(@, policy_doc_name, CurKeyword, qa_pairs,
                                              CurDoc.findings[CurKeyword],
                                              CurDoc.original_filename)]
                   /\ qa_text' = [qa_text EXCEPT ![t] = AddAll(@, doc_id, qa_pairs)]
                   /\ qa_text_keys' = [qa_text_keys EXCEPT ![t] =
                          IF doc_id \in DOMAIN qa_text[t] THEN @ ELSE Append(@, doc_id)]
              ELSE UNCHANGED <<has_content, qa_json, qa_text, qa_text_keys>>
           /\ processed_sections' =
                  MarkProcessed(processed_sections,
                                checkpoint_key(doc_id, CurKeyword, t), qa_pairs)
    /\ kw_idx' = kw_idx + 1
    /\ pc' = "keyword"
    /\ retry_count' = 0
    /\ outcome' = NoOutcome
    /\ qa_pairs' = <<>>
    /\ requests' = 0
    /\ sleeps' = <<>>
    /\ UNCHANGED <<pdfVars, fnVars, configVars, doc_stats, files, masked_content,
                   doc_idx, pt_idx, calls, save_log,
                   attempted>>

\* an entry of the call's log of saves
DocSave(t, doc_id) == [kind |-> "doc", prompt_type |-> t, doc_id |-> doc_id]
CombinedSave(t) == [kind |-> "combined", prompt_type |-> t, doc_id |-> Combined]

\* mutation of SaveDue: save_doc_outputs outside the test of line 333
SaveDue_always(flag) == TRUE

\* line 333: the individual save is due when the pass added content
SaveDue(flag) == flag

\* lines 332-335, then lines 366-373: the keyword loop is over; the document's
\* outputs are saved when this pass added content, and process_content goes on
\* to the alternative pass, to the next document or to the combined outputs
EndKeywords ==
    /\ pc = "keyword"
    /\ kw_idx > Len(config_keywords)
    /\ LET t == CurType
           doc_id == CurDoc.doc_id
       IN  IF SaveDue(has_content) /\ HasText(t, doc_id)
           THEN /\ doc_stats' = [doc_stats EXCEPT ![t] =
                       DictSet(@, doc_id, DocStats(t, doc_id))]
                /\ files' = [files EXCEPT ![t] =
                       DocFiles(t, doc_id, _get_policy_doc_name(doc_id))]
           ELSE UNCHANGED <<doc_stats, files>>
    /\ save_log' = IF SaveDue(has_content)
                   THEN Append(save_log, DocSave(CurType, CurDoc.doc_id))
                   ELSE save_log
    /\ has_content' = FALSE
    /\ IF pt_idx < Len(PromptTypes)
       THEN /\ pt_idx' = pt_idx + 1
            /\ kw_idx' = 1
            /\ UNCHANGED <<pc, doc_idx, masked_content>>
       ELSE IF doc_idx < Len(masked_content)
       THEN /\ doc_idx' = doc_idx + 1
            /\ pt_idx' = 1
            /\ kw_idx' = 1
            /\ UNCHANGED <<pc, masked_content>>
       ELSE /\ pc' = "combine"
            /\ UNCHANGED <<doc_idx, pt_idx, kw_idx, masked_content>>
    /\ UNCHANGED <<pdfVars, fnVars, configVars, processed_sections, qa_text,
                   qa_text_keys, qa_json, attemptVars, calls, attempted>>

\* lines 375-379: save_combined_outputs of both managers, and the call returns
SaveCombined ==
    /\ pc = "combine"
    /\ files' = [t \in PromptTypeSet |-> save_combined_outputs(t)]
    /\ save_log' = save_log \o [i \in 1..Len(PromptTypes) |-> CombinedSave(PromptTypes[i])]
    /\ pc' = "idle"
    /\ masked_content' = <<>>
    /\ doc_idx' = 0
    /\ pt_idx' = 0
    /\ kw_idx' = 0
    /\ UNCHANGED <<pdfVars, fnVars, configVars, processed_sections, qa_text,
                   qa_text_keys, qa_json, doc_stats, has_content, attemptVars,
                   calls, attempted>>

NextGen ==
    \/ \E arg \in GenInputs : process_content(arg)
    \/ ContinueKeyword
    \/ SkipProcessed
    \/ StartGenerate
    \/ Post
    \/ Retry
    \/ Exhausted
    \/ Record
    \/ EndKeywords
    \/ SaveCombined

SpecGen == InitGen /\ [][NextGen]_vars

\* the steps of the generator's one thread inside a process_content call
GenThread ==
    \/ ContinueKeyword
    \/ SkipProcessed
    \/ StartGenerate
    \/ Post
    \/ Retry
    \/ Exhausted
    \/ Record
    \/ EndKeywords
    \/ SaveCombined

\* the thread of a call keeps running: session.post has a timeout (line 259),
\* so every request returns or raises, and time.sleep returns
SpecGenFair == SpecGen /\ WF_vars(GenThread)

(***************************************************************************)
(* PDFProcessor: block text, headings and the context window               *)
(*                                                                         *)
(* A block is [has_lines, lines]; a line is [has_spans, spans]; a span is  *)
(* [text, size, flags], with size and flags 0 when the key is absent       *)
(* (spans[0].get('size', 0), spans[0].get('flags', 0)).                    *)
(***************************************************************************)

\* the cased characters: the ASCII letters
Uppers == <<"A", "B", "C", "D", "E", "F", "G", "H", "I", "J", "K", "L", "M",
            "N", "O", "P", "Q", "R", "S", "T", "U", "V", "W", "X", "Y", "Z">>
Lowers == <<"a", "b", "c", "d", "e", "f", "g", "h", "i", "j", "k", "l", "m",
            "n", "o", "p", "q", "r", "s", "t", "u", "v", "w", "x", "y", "z">>
UpperChars == {Uppers[i] : i \in 1..Len(Uppers)}
LowerChars == {Lowers[i] : i \in 1..Len(Lowers)}

\* str.isupper(): some cased character, and no lower-case one
IsUpper(text) ==
    /\ \E i \in 1..Len(text) : text[i] \in UpperChars
    /\ \A i \in 1..Len(text) : text[i] \notin LowerChars

\* line.get("spans") of lines 99 and 162
HasSpans(line) == line.has_spans /\ line.spans # <<>>

RECURSIVE SpanTexts(_)
\* [span["text"] for span in line["spans"]]
SpanTexts(spans) ==
    IF spans = <<>> THEN <<>> ELSE <<Head(spans).text>> \o SpanTexts(Tail(spans))

\* lines 102 and 165: " ".join(span["text"] for span in line["spans"]).strip()
LineText(line) == Strip(Join(<<" ">>, SpanTexts(line.spans)))

\* line 108: text.rstrip()[-1] in '.!?'
EndsSentence(text) == RStrip(text)[Len(RStrip(text))] \in {".", "!", "?"}

\* mutation of FlushSentence: the lines behind the last closed sentence are dropped
FlushSentence_closedOnly(sentences, current_sentence) == sentences

\* lines 112-113: the lines behind the last closed sentence form one more
FlushSentence(sentences, current_sentence) ==
    IF current_sentence # <<>>
    THEN Append(sentences, Join(<<" ">>, current_sentence))
    ELSE sentences

RECURSIVE BlockLoop(_, _, _)
\* lines 98-113: the loop over the lines, then the trailing sentence
BlockLoop(lines, sentences, current_sentence) ==
    IF lines = <<>>
    THEN FlushSentence(sentences, current_sentence)
    ELSE LET line == Head(lines)
             text == LineText(line)
         IN  IF ~HasSpans(line) \/ text = <<>>
             THEN BlockLoop(Tail(lines), sentences, current_sentence)
             ELSE IF EndsSentence(text)
             THEN BlockLoop(Tail(lines),
                            Append(sentences,
                                   Join(<<" ">>, Append(current_sentence, text))),
                            <<>>)
             ELSE BlockLoop(Tail(lines), sentences, Append(current_sentence, text))

\* PDFProcessor._get_block_text
_get_block_text(block) ==
    IF ~block.has_lines THEN <<>>
    ELSE Join(<<" ">>, BlockLoop(block.lines, <<>>, <<>>))

\* spans[0].get('flags', 0) & 16
BoldBit(flags) == (flags \div 16) % 2 = 1

\* lines 140-141: the spans handed to _is_header: those of the block's first
\* line, [{}] for a first line without a "spans" key; a first line whose
\* spans list is empty hands over an empty list
HeaderSpans(block) ==
    IF block.lines[1].has_spans THEN block.lines[1].spans
    ELSE << [text |-> <<>>, size |-> 0, flags |-> 0] >>

\* PDFProcessor._is_header; spans[0] of an empty list raises IndexError, which
\* the result "raise" stands for
_is_header(text, spans) ==
    IF text = <<>> THEN "no"
    ELSE IF IsUpper(text) \/ EndsWith(RStrip(text), <<":">>) THEN "yes"
    ELSE IF spans = <<>> THEN "raise"
    ELSE IF spans[1].size > 12 \/ BoldBit(spans[1].flags) THEN "yes"
    ELSE "no"

\* the results of _find_keyword_context: None, a string, or an exception
\* (part_idx lists the indices of the blocks whose text went into content_parts)
NoContext == [raised |-> FALSE, found |-> FALSE, text |-> <<>>, part_idx |-> <<>>]
Context(text, part_idx) ==
    [raised |-> FALSE, found |-> TRUE, text |-> text, part_idx |-> part_idx]
ContextRaised == [raised |-> TRUE, found |-> FALSE, text |-> <<>>, part_idx |-> <<>>]

\* mutation of StopsScan: the break of line 142 is lost
StopsScan_never(header) == FALSE

\* lines 140-142: does the forward scan break after this block
StopsScan(header) == header = "yes"

\* mutation of Stopped: the heading's text is left out of the window
Stopped_withoutHeading(content_parts, part_idx, text, j) ==
    Context(Join(<<" ">>, content_parts), part_idx)

\* lines 138-142: the break comes after the append of line 139, so the window
\* that ends at a heading holds the heading's text as its last part
Stopped(content_parts, part_idx, text, j) ==
    Context(Join(<<" ">>, Append(content_parts, text)), Append(part_idx, j))

RECURSIVE ForwardScan(_, _, _, _, _)
\* lines 135-144: the following blocks i = 1..3, then the joined parts
ForwardScan(blocks, current_block_idx, i, content_parts, part_idx) ==
    IF i >= 4 THEN Context(Join(<<" ">>, content_parts), part_idx)
    ELSE IF current_block_idx + i < Len(blocks)
    THEN LET block == blocks[current_block_idx + i + 1]
             next_block_text == _get_block_text(block)
         IN  IF next_block_text # <<>>
             THEN LET parts == Append(content_parts, next_block_text)
                      idxs == Append(part_idx, current_block_idx + i)
                      header == _is_header(SplitLines(next_block_text)[1],
                                           HeaderSpans(block))
                  IN  IF header = "raise" THEN ContextRaised
                      ELSE IF StopsScan(header)
                      THEN Stopped(content_parts, part_idx, next_block_text,
                                   current_block_idx + i)
                      ELSE ForwardScan(blocks, current_block_idx, i + 1, parts, idxs)
             ELSE ForwardScan(blocks, current_block_idx, i + 1, content_parts,
                              part_idx)
    ELSE ForwardScan(blocks, current_block_idx, i + 1, content_parts, part_idx)

\* PDFProcessor._find_keyword_context; current_block_idx counts from 0 as in
\* the code, blocks is a sequence indexed from 1
_find_keyword_context(blocks, keyword, current_block_idx) ==
    LET current_text == _get_block_text(blocks[current_block_idx + 1])
    IN  IF ~Contains(current_text, keyword) THEN NoContext
        ELSE LET previous_text ==
                     IF current_block_idx > 0
                     THEN _get_block_text(blocks[current_block_idx])
                     ELSE <<>>
                 before == IF previous_text # <<>> THEN <<previous_text>> ELSE <<>>
                 before_idx ==
                     IF previous_text # <<>> THEN <<current_block_idx - 1>> ELSE <<>>
             IN  ForwardScan(blocks, current_block_idx, 1,
                             Append(before, current_text),
                             Append(before_idx, current_block_idx))

(***************************************************************************)
(* ContentMasker and the finding records                                   *)
(***************************************************************************)

Digits == {"0", "1", "2", "3", "4", "5", "6", "7", "8", "9"}
\* \w of the regular expressions
WordChars == UpperChars \cup LowerChars \cup Digits \cup {"_"}

\* the lower-case form of a character (re.IGNORECASE)
LowerOf(c) ==
    IF c \in UpperChars
    THEN Lowers[CHOOSE i \in 1..Len(Uppers) : Uppers[i] = c]
    ELSE c

\* line 18: ContentMasker.company_names
company_names ==
    << <<"U", "n", "u", "m">>,
       <<"H", "a", "r", "t", "f", "o", "r", "d">>,
       <<"L", "i", "n", "c", "o", "l", "n">> >>

CompanyToken ==
    <<"[", "C", "O", "M", "P", "A", "N", "Y", "_", "N", "A", "M", "E", "]">>

(***************************************************************************)
(* The regular expressions of ContentMasker, matched as re matches them:   *)
(* by backtracking, greedy repetitions first, alternatives left to right   *)
(***************************************************************************)

\* syntax trees: one character of a set, \b, a literal word, alternative
\* literal words (w1|w2|...), a sequence, and r{lo,hi} (hi = -1: no upper
\* limit)
Chr(s) == [op |-> "set", s |-> s]
Lit(c) == Chr({c})
WordBoundary == [op |-> "wb"]
Str(w) == [op |-> "str", w |-> w]
AnyOf(ws) == [op |-> "words", ws |-> ws]
Cat(rs) == [op |-> "cat", rs |-> rs]
Rep(r, lo, hi) == [op |-> "rep", r |-> r, lo |-> lo, hi |-> hi]
Opt(r) == Rep(r, 0, 1)
Star(r) == Rep(r, 0, -1)
Plus(r) == Rep(r, 1, -1)

\* does character c match a set, with or without re.IGNORECASE
InClass(c, s, ignorecase) ==
    \/ c \in s
    \/ ignorecase /\ \E d \in s : LowerOf(d) = LowerOf(c)

\* is the literal word w at position i of text
WordAt(w, text, i, ignorecase) ==
    /\ i + Len(w) - 1 <= Len(text)
    /\ \A j \in 1..Len(w) : InClass(text[i + j - 1], {w[j]}, ignorecase)

\* \b before position i of text (positions count from 1; Len(text) + 1 is the
\* end of the text)
IsBoundary(text, i) ==
    LET before == i > 1 /\ text[i - 1] \in WordChars
        after == i <= Len(text) /\ text[i] \in WordChars
    IN  before # after

\* a, then the elements of b that a does not hold (a and b without repetitions)
Merge(a, b) == a \o SelectSeq(b, LAMBDA e : \A j \in 1..Len(a) : a[j] # e)

RECURSIVE Ends(_, _, _, _)
RECURSIVE EndsFrom(_, _, _, _)
RECURSIVE CatEnds(_, _, _, _, _)
\* the positions at which a match of re that starts at position i of text can
\* end, in the order in which backtracking tries them: the first one is where
\* the match of re.match ends when nothing follows re
Ends(re, text, i, ignorecase) ==
    CASE re.op = "set" ->
           IF i <= Len(text) /\ InClass(text[i], re.s, ignorecase)
           THEN <<i + 1>> ELSE <<>>
      [] re.op = "wb" -> IF IsBoundary(text, i) THEN <<i>> ELSE <<>>
      [] re.op = "str" ->
           IF WordAt(re.w, text, i, ignorecase) THEN <<i + Len(re.w)>> ELSE <<>>
      [] re.op = "words" ->
           \* the alternatives left to right (no two of the words of a
           \* pattern of the masker that match at i have the same length)
           LET matching == SelectSeq(re.ws,
                                     LAMBDA w : WordAt(w, text, i, ignorecase))
           IN  [k \in 1..Len(matching) |-> i + Len(matching[k])]
      [] re.op = "cat" -> CatEnds(re.rs, 1, text, <<i>>, ignorecase)
      [] re.op = "rep" /\ re.r.op = "set" ->
           \* a repeated character set takes the longest run first and gives
           \* back one character at a time
           LET most == IF re.hi < 0 THEN Len(text) + 1 - i ELSE re.hi
               run == {n \in 0..most :
                         \A j \in i..(i + n - 1) :
                            j <= Len(text) /\ InClass(text[j], re.r.s, ignorecase)}
               longest == CHOOSE n \in run : \A o \in run : o <= n
           IN  IF longest < re.lo THEN <<>>
               ELSE [k \in 1..(longest - re.lo + 1) |-> i + longest + 1 - k]
      [] re.op = "rep" ->
           \* one more repetition first, none last
           LET once == IF re.hi = 0 THEN <<>>
                       ELSE SelectSeq(Ends(re.r, text, i, ignorecase),
                                      LAMBDA e : e > i)
               rest == Rep(re.r, IF re.lo > 0 THEN re.lo - 1 ELSE 0,
                           IF re.hi > 0 THEN re.hi - 1 ELSE re.hi)
               more == EndsFrom(rest, text, once, ignorecase)
           IN  IF re.lo > 0 THEN more ELSE Merge(more, <<i>>)

\* the same for the parts of the sequence rs from the k-th on, when the parts
\* before it can end at the positions `starts`, tried in their order
CatEnds(rs, k, text, starts, ignorecase) ==
    IF k > Len(rs) \/ Len(starts) = 0 THEN starts
    ELSE LET next == EndsFrom(rs[k], text, starts, ignorecase)
         IN  IF Len(next) = 0 THEN <<>>
             ELSE CatEnds(rs, k + 1, text, next, ignorecase)

\* the same for a match that may start at any of the positions `starts`, tried
\* in their order
EndsFrom(re, text, starts, ignorecase) ==
    IF Len(starts) = 0 THEN <<>>
    ELSE IF Len(starts) = 1 THEN Ends(re, text, starts[1], ignorecase)
    ELSE LET half == Len(starts) \div 2
         IN  Merge(EndsFrom(re, text, SubSeq(starts, 1, half), ignorecase),
                   EndsFrom(re, text, SubSeq(starts, half + 1, Len(starts)),
                            ignorecase))

\* where the match of re at position i of text ends (re.match), 0 without a
\* match; no pattern of the masker matches the empty string
MatchEnd(re, text, i, ignorecase) ==
    LET ends == Ends(re, text, i, ignorecase)
    IN  IF Len(ends) > 0 /\ ends[1] > i THEN ends[1] ELSE 0

\* the positions from i on at which re matches, each with the end of its match
Matches(re, text, i, ignorecase) ==
    LET all == {<<p, MatchEnd(re, text, p, ignorecase)>> : p \in i..Len(text)}
    IN  {found \in all : found[2] > 0}

\* re.sub with count=1: only the leftmost match is replaced
Sub_firstOnly(re, token, text, i, ignorecase) ==
    LET matches == Matches(re, text, i, ignorecase)
        first == CHOOSE found \in matches :
                     \A other \in matches : found[1] <= other[1]
    IN  IF matches = {} THEN SubSeq(text, i, Len(text))
        ELSE SubSeq(text, i, first[1] - 1) \o token
                \o SubSeq(text, first[2], Len(text))

RECURSIVE Scan(_, _, _, _, _)
\* the scan of re.sub from position i until it reaches position limit or
\* passes it: a match found at the position of the scan is replaced and the
\* scan goes on behind it, any other character is copied. out: the text
\* produced, pos: where the scan stands
Scan(matches, token, text, i, limit) ==
    IF i >= limit THEN [out |-> <<>>, pos |-> i]
    ELSE IF limit = i + 1
    THEN IF \E found \in matches : found[1] = i
         THEN [out |-> token,
               pos |-> (CHOOSE found \in matches : found[1] = i)[2]]
         ELSE [out |-> <<text[i]>>, pos |-> i + 1]
    ELSE LET middle == (i + limit) \div 2
             left == Scan(matches, token, text, i, middle)
             right == Scan(matches, token, text, left.pos, limit)
         IN  [out |-> left.out \o right.out, pos |-> right.pos]

\* re.sub(re, token, text, flags) from position i on: every match found
\* scanning from the left is replaced; a text without a match is returned as
\* it is
Sub(re, token, text, i, ignorecase) ==
    LET matches == Matches(re, text, i, ignorecase)
    IN  IF matches = {} THEN SubSeq(text, i, Len(text))
        ELSE Scan(matches, token, text, i, Len(text) + 1).out

\* the character classes of the patterns
Digit == Chr(Digits)
Space == Chr(Whitespace)
Word == Chr(WordChars)
Letters == UpperChars \cup LowerChars
\* [\w\.-]
EmailChar == Chr(WordChars \cup {".", "-"})
\* [A-Za-z0-9\s,.-]
AddressChar == Chr(Letters \cup Digits \cup Whitespace \cup {",", ".", "-"})
\* [\s.-]
PhoneSeparator == Chr(Whitespace \cup {".", "-"})

\* line 22
EmailPattern ==
    Cat(<<WordBoundary, Plus(EmailChar), Lit("@"), Plus(EmailChar), Lit("."),
          Plus(Word), WordBoundary>>)

\* line 23
PhonePattern ==
    Cat(<<WordBoundary,
          Opt(Cat(<<Lit("+"), Rep(Digit, 1, 2), Opt(Space)>>)),
          Opt(Lit("(")), Rep(Digit, 3, 3), Opt(Lit(")")), Opt(PhoneSeparator),
          Rep(Digit, 3, 3), Opt(PhoneSeparator), Rep(Digit, 4, 4),
          WordBoundary>>)

\* line 24
SsnPattern ==
    Cat(<<WordBoundary, Rep(Digit, 3, 3), Lit("-"), Rep(Digit, 2, 2), Lit("-"),
          Rep(Digit, 4, 4), WordBoundary>>)

\* line 25: the street words, in the order of the alternatives
StreetWords ==
    <<<<"S", "t", "r", "e", "e", "t">>, <<"S", "t">>,
      <<"A", "v", "e", "n", "u", "e">>, <<"A", "v", "e">>,
      <<"R", "o", "a", "d">>, <<"R", "d">>,
      <<"B", "o", "u", "l", "e", "v", "a", "r", "d">>,
      <<"B", "l", "v", "d">>, <<"L", "a", "n", "e">>, <<"L", "n">>,
      <<"D", "r", "i", "v", "e">>, <<"D", "r">>, <<"C", "o", "u", "r", "t">>,
      <<"C", "t">>, <<"C", "i", "r", "c", "l", "e">>, <<"C", "i", "r">>,
      <<"W", "a", "y">>, <<"P", "a", "r", "k", "w", "a", "y">>,
      <<"P", "k", "w", "y">>, <<"H", "i", "g", "h", "w", "a", "y">>,
      <<"H", "w", "y">>, <<"S", "u", "i", "t", "e">>, <<"S", "t", "e">>,
      <<"U", "n", "i", "t">>, <<"#">>>>

\* \d{5}(-\d{4})?
ZipDigits == Cat(<<Rep(Digit, 5, 5), Opt(Cat(<<Lit("-"), Rep(Digit, 4, 4)>>))>>)

\* line 25 (used with re.IGNORECASE)
AddressPattern ==
    Cat(<<WordBoundary, Plus(Digit), Plus(Space),
          Cat(<<Plus(AddressChar), Plus(Space)>>),
          AnyOf(StreetWords), Opt(Lit(".")), Star(Space), Opt(Lit(",")),
          Star(Space),
          Cat(<<Plus(Chr(Letters \cup Whitespace)), Lit(","), Star(Space),
                Rep(Chr(UpperChars), 2, 2), Star(Space), ZipDigits>>),
          WordBoundary>>)

\* line 26
ZipPattern == Cat(<<WordBoundary, ZipDigits, WordBoundary>>)

\* line 27
PolicyNumberPattern == Cat(<<WordBoundary, Rep(Digit, 5, 10), WordBoundary>>)

\* line 28: the month prefixes, in the order of the alternatives
Months ==
    <<<<"J", "a", "n">>, <<"F", "e", "b">>, <<"M", "a", "r">>,
      <<"A", "p", "r">>, <<"M", "a", "y">>, <<"J", "u", "n">>,
      <<"J", "u", "l">>, <<"A", "u", "g">>, <<"S", "e", "p">>,
      <<"O", "c", "t">>, <<"N", "o", "v">>, <<"D", "e", "c">>>>

\* line 28
MonthDatePattern ==
    Cat(<<WordBoundary, AnyOf(Months), Star(Chr(LowerChars)), Lit(" "),
          Rep(Digit, 1, 2), Opt(Lit(",")), Lit(" "), Rep(Digit, 4, 4),
          WordBoundary>>)

\* line 29
NumericDatePattern ==
    Cat(<<WordBoundary, Rep(Digit, 1, 2), Lit("/"), Rep(Digit, 1, 2), Lit("/"),
          Rep(Digit, 2, 4), WordBoundary>>)

\* line 30: the units, in the order of the alternatives
TimeUnits ==
    <<<<"d", "a", "y">>, <<"w", "e", "e", "k">>, <<"m", "o", "n", "t", "h">>,
      <<"y", "e", "a", "r">>>>

\* line 30
TimePeriodPattern ==
    Cat(<<WordBoundary, Plus(Digit), Star(Space), AnyOf(TimeUnits),
          Opt(Lit("s")), WordBoundary>>)

\* the category tokens
EmailToken == <<"[", "E", "M", "A", "I", "L", "]">>
PhoneToken == <<"[", "P", "H", "O", "N", "E", "]">>
SsnToken == <<"[", "S", "S", "N", "]">>
AddressToken == <<"[", "A", "D", "D", "R", "E", "S", "S", "]">>
ZipToken == <<"[", "Z", "I", "P", "]">>
PolicyNumberToken ==
    <<"[", "P", "O", "L", "I", "C", "Y", "_", "N", "U", "M", "B", "E", "R",
      "]">>
DateToken == <<"[", "D", "A", "T", "E", "]">>
TimePeriodToken ==
    <<"[", "T", "I", "M", "E", "_", "P", "E", "R", "I", "O", "D", "]">>

Rule(name, pattern, token, ignorecase) ==
    [name |-> name, pattern |-> pattern, token |-> token,
     ignorecase |-> ignorecase]

\* the policy-number rule moved in front of the address rule
MaskRules_policyNumberFirst ==
    <<Rule("EMAIL", EmailPattern, EmailToken, FALSE),
      Rule("PHONE", PhonePattern, PhoneToken, FALSE),
      Rule("SSN", SsnPattern, SsnToken, FALSE),
      Rule("POLICY_NUMBER", PolicyNumberPattern, PolicyNumberToken, FALSE),
      Rule("ADDRESS", AddressPattern, AddressToken, TRUE),
      Rule("ZIP", ZipPattern, ZipToken, FALSE),
      Rule("DATE_MONTH", MonthDatePattern, DateToken, FALSE),
      Rule("DATE_NUMERIC", NumericDatePattern, DateToken, FALSE),
      Rule("TIME_PERIOD", TimePeriodPattern, TimePeriodToken, FALSE)>>

\* lines 22-30: the substitutions in the order of the statements
MaskRules ==
    <<Rule("EMAIL", EmailPattern, EmailToken, FALSE),
      Rule("PHONE", PhonePattern, PhoneToken, FALSE),
      Rule("SSN", SsnPattern, SsnToken, FALSE),
      Rule("ADDRESS", AddressPattern, AddressToken, TRUE),
      Rule("ZIP", ZipPattern, ZipToken, FALSE),
      Rule("POLICY_NUMBER", PolicyNumberPattern, PolicyNumberToken, FALSE),
      Rule("DATE_MONTH", MonthDatePattern, DateToken, FALSE),
      Rule("DATE_NUMERIC", NumericDatePattern, DateToken, FALSE),
      Rule("TIME_PERIOD", TimePeriodPattern, TimePeriodToken, FALSE)>>

\* lines 32-33: one more substitution per company name, in list order
CompanyRules ==
    [k \in 1..Len(company_names) |->
        Rule("COMPANY_NAME",
             Cat(<<WordBoundary, Str(company_names[k]), WordBoundary>>),
             CompanyToken, TRUE)]

\* the statements of mask_sensitive_info, first to last
AllRules == MaskRules \o CompanyRules

\* one statement of mask_sensitive_info
ApplyRule(rule, text) == Sub(rule.pattern, rule.token, text, 1, rule.ignorecase)

RECURSIVE ApplyRules(_, _)
\* the statements from the k-th on
ApplyRules(text, k) ==
    IF k > Len(AllRules) THEN text
    ELSE LET masked == ApplyRule(AllRules[k], text)
         \* the assignment to text is complete before the next statement runs
         IN  IF Len(masked) >= 0 THEN ApplyRules(masked, k + 1) ELSE masked

\* lines 20-35: ContentMasker.mask_sensitive_info
mask_sensitive_info(text) == ApplyRules(text, 1)

\* num2words(n) for the page and line numbers of the model's documents
NumberWords ==
    << <<"o", "n", "e">>, <<"t", "w", "o">>, <<"t", "h", "r", "e", "e">>,
       <<"f", "o", "u", "r">> >>

\* PDFProcessor._convert_numbers_to_words(str(n)): one all-digit word
_convert_numbers_to_words(n) == NumberWords[n]

\* PDFProcessor._create_metadata; the timestamp is whatever the clock says
_create_metadata(doc_id, page, line, selected_text, full_content) ==
    [source_file |-> doc_id,
     location |-> [page_number |-> _convert_numbers_to_words(page),
                   line_number |-> _convert_numbers_to_words(line)],
     content |-> [selected_text |-> mask_sensitive_info(selected_text),
                  full_extracted_part |-> mask_sensitive_info(full_content)],
     extraction_timestamp |-> "now"]

(***************************************************************************)
(* PDFProcessor.process_single_pdf: the extraction loops                   *)
(*                                                                         *)
(* A document is [readable, openable, pages]; a page is [ok, blocks], and  *)
(* page.get_text raises on a page that is not ok.  The loops carry          *)
(* [raised, findings].                                                     *)
(***************************************************************************)

RECURSIVE KeywordLoop(_, _, _, _, _, _, _, _)
\* lines 167-181: every configured keyword on one line
KeywordLoop(blocks, block_num, doc_id, page_num, line_num, text, k, acc) ==
    IF acc.raised \/ k > Len(config_keywords) THEN acc
    ELSE LET keyword == config_keywords[k]
             full_context == _find_keyword_context(blocks, keyword, block_num)
         IN  IF full_context.raised THEN [acc EXCEPT !.raised = TRUE]
             ELSE IF full_context.found /\ full_context.text # <<>>
             THEN KeywordLoop(blocks, block_num, doc_id, page_num, line_num, text,
                      k + 1,
                      [acc EXCEPT !.findings =
                          DictSet(@, keyword,
                              Append(IF keyword \in DOMAIN @ THEN @[keyword] ELSE <<>>,
                                     _create_metadata(doc_id, page_num, line_num,
                                                      text, full_context.text)))])
             ELSE KeywordLoop(blocks, block_num, doc_id, page_num, line_num, text,
                              k + 1, acc)

RECURSIVE LineLoop(_, _, _, _, _, _)
\* lines 161-181: every line of one block, numbered from 1
LineLoop(blocks, block_num, doc_id, page_num, line_num, acc) ==
    LET lines == blocks[block_num + 1].lines
    IN  IF acc.raised \/ line_num > Len(lines) THEN acc
        ELSE IF ~HasSpans(lines[line_num])
        THEN LineLoop(blocks, block_num, doc_id, page_num, line_num + 1, acc)
        ELSE LineLoop(blocks, block_num, doc_id, page_num, line_num + 1,
                      KeywordLoop(blocks, block_num, doc_id, page_num, line_num,
                                  LineText(lines[line_num]), 1, acc))

RECURSIVE BlocksLoop(_, _, _, _, _)
\* lines 157-181: every block of one page, numbered from 0
BlocksLoop(blocks, block_num, doc_id, page_num, acc) ==
    IF acc.raised \/ block_num >= Len(blocks) THEN acc
    ELSE IF ~blocks[block_num + 1].has_lines
    THEN BlocksLoop(blocks, block_num + 1, doc_id, page_num, acc)
    ELSE BlocksLoop(blocks, block_num + 1, doc_id, page_num,
                    LineLoop(blocks, block_num, doc_id, page_num, 1, acc))

RECURSIVE PagesLoop(_, _, _, _)
\* lines 154-181: every page, numbered from 1
PagesLoop(pages, page_num, doc_id, acc) ==
    IF acc.raised \/ page_num > Len(pages) THEN acc
    ELSE IF ~pages[page_num].ok THEN [acc EXCEPT !.raised = TRUE]
    ELSE PagesLoop(pages, page_num + 1, doc_id,
                   BlocksLoop(pages[page_num].blocks, 0, doc_id, page_num, acc))

\* lines 150-183: the findings of a document, or an exception
Extract(document, doc_id) ==
    PagesLoop(document.pages, 1, doc_id, [raised |-> FALSE, findings |-> EmptyDict])

(***************************************************************************)
(* The stored files of the extraction phase                                *)
(***************************************************************************)

\* largest processing.max_workers the configuration is drawn from
MaxWorkers == 2
\* number of process_directory calls made on the one processor
MaxDirCalls == 2

\* a span in body type, and one in bold heading type
Span(text) == [text |-> text, size |-> 10, flags |-> 0]
BoldSpan(text) == [text |-> text, size |-> 14, flags |-> 16]
\* a block of one line of one span
TextBlock(span) ==
    [has_lines |-> TRUE, lines |-> << [has_spans |-> TRUE, spans |-> <<span>>] >>]
\* an image block: no "lines" key
ImageBlock == [has_lines |-> FALSE, lines |-> <<>>]

\* "Unum fee tax."
TextFeeTax ==
    <<"U", "n", "u", "m", " ", "f", "e", "e", " ", "t", "a", "x", ".">>
\* "Terms"
TextTerms == <<"T", "e", "r", "m", "s">>
\* "hello"
TextHello == <<"h", "e", "l", "l", "o">>
\* "fee due"
TextFeeDue == <<"f", "e", "e", " ", "d", "u", "e">>

\* a readable document that mentions both keywords before a heading
DocBoth ==
    [openable |-> TRUE,
     pages |-> << [ok |-> TRUE,
                   blocks |-> <<ImageBlock, TextBlock(Span(TextFeeTax)),
                                TextBlock(BoldSpan(TextTerms)),
                                TextBlock(Span(TextHello))>>] >>]
\* a readable document that mentions no keyword
DocPlain ==
    [openable |-> TRUE,
     pages |-> << [ok |-> TRUE, blocks |-> <<TextBlock(Span(TextHello))>>] >>]
\* a file storage.read_file or fitz.open raises on
DocCorrupt == [openable |-> FALSE, pages |-> <<>>]
\* a document whose second page the parser raises on
DocBadPage ==
    [openable |-> TRUE,
     pages |-> << [ok |-> TRUE, blocks |-> <<TextBlock(Span(TextFeeDue))>>],
                  [ok |-> FALSE, blocks |-> <<>>] >>]

\* the storage holds one of these behind every path
Documents == {"both", "plain", "corrupt", "badpage"}
\* what the parser yields for a stored document
Parsed(name) ==
    CASE name = "both" -> DocBoth
      [] name = "plain" -> DocPlain
      [] name = "corrupt" -> DocCorrupt
      [] name = "badpage" -> DocBadPage

\* the paths storage.list_files returns: "d/a.pdf", "d/ab.pdf", "d/b.pdf"
PathA == <<"d", "/", "a", ".", "p", "d", "f">>
PathAB == <<"d", "/", "a", "b", ".", "p", "d", "f">>
PathB == <<"d", "/", "b", ".", "p", "d", "f">>
Paths == {PathA, PathAB, PathB}

\* the characters of the paths and of the page values in code point order
CodeOrder ==
    <<".", "/", "0", "1", "2", "3", "a", "b", "d", "e", "f", "h", "n", "o", "p",
      "r", "t", "w">>
Ord(c) == CHOOSE i \in 1..Len(CodeOrder) : CodeOrder[i] = c

RECURSIVE StrLess(_, _)
\* a < b on strings: by code point, a proper prefix first
StrLess(a, b) ==
    IF b = <<>> THEN FALSE
    ELSE IF a = <<>> THEN TRUE
    ELSE IF Head(a) = Head(b) THEN StrLess(Tail(a), Tail(b))
    ELSE Ord(Head(a)) < Ord(Head(b))

RECURSIVE Insert(_, _)
Insert(x, sorted_seq) ==
    IF sorted_seq = <<>> THEN <<x>>
    ELSE IF StrLess(x, Head(sorted_seq)) THEN <<x>> \o sorted_seq
    ELSE <<Head(sorted_seq)>> \o Insert(x, Tail(sorted_seq))

RECURSIVE Sorted(_)
\* line 203: sorted(pdf_files)
Sorted(files_list) ==
    IF files_list = <<>> THEN <<>>
    ELSE Insert(Head(files_list), Sorted(Tail(files_list)))

\* the orders in which list_files may return the directory's files
Listings ==
    {l \in [1..Cardinality(Paths) -> Paths] : \A i, j \in DOMAIN l : i # j => l[i] # l[j]}

RECURSIVE AfterSlash(_, _)
\* Path(pdf_path).name: what follows the last '/'
AfterSlash(path, name) ==
    IF path = <<>> THEN name
    ELSE IF Head(path) = "/" THEN AfterSlash(Tail(path), <<>>)
    ELSE AfterSlash(Tail(path), Append(name, Head(path)))

Basename(path) == AfterSlash(path, <<>>)

(***************************************************************************)
(* PDFProcessor.process_directory and its worker pool                      *)
(*                                                                         *)
(* Every submitted process_single_pdf call is a task                       *)
(*   [path, state, doc_id, counter_read, findings]                         *)
(* that a pool thread runs; the threads interleave at every access to the  *)
(* processor's shared fields.                                              *)
(***************************************************************************)

\* the extraction phase: any worker count, any documents behind the paths
InitPdf ==
    /\ retries = MaxRetries
    /\ GenStart
    /\ PageStart
    /\ ParseStart
    /\ MainStart
    /\ MaskStart
    /\ BlockStart
    /\ PromptStart
    /\ max_workers \in 1..MaxWorkers
    /\ contents \in [Paths -> Documents]
    /\ PdfStart

NoDocId == DocId(0)

NewTask(path) ==
    [path |-> path, state |-> "queued", doc_id |-> NoDocId, counter_read |-> 0,
     findings |-> EmptyDict]

TaskIds == 1..Len(tasks)
Finished(i) == tasks[i].state \in {"done", "failed"}
Running(i) == tasks[i].state \notin {"queued", "done", "failed"}

\* lines 198-203: the call with a listing that holds files
process_directory(listing) ==
    /\ dir_pc = "idle"
    /\ dir_calls < MaxDirCalls
    /\ dir_calls' = dir_calls + 1
    /\ pdf_files' = Sorted(listing)
    /\ sub_idx' = 1
    /\ col_idx' = 1
    /\ tasks' = <<>>
    /\ logged_errors' = {}
    /\ returned' = "none"
    /\ dir_pc' = "submitting"
    /\ assigned' = <<>>
    /\ UNCHANGED <<genVars, fnVars, max_workers, contents, processed_files,
                   combined_results, file_counter, open_handles, saved>>

\* lines 200-201: the call with an empty listing raises ValueError
process_directory_empty ==
    /\ dir_pc = "idle"
    /\ dir_calls < MaxDirCalls
    /\ dir_calls' = dir_calls + 1
    /\ pdf_files' = <<>>
    /\ tasks' = <<>>
    /\ logged_errors' = {}
    /\ returned' = "ValueError"
    /\ assigned' = <<>>
    /\ UNCHANGED <<genVars, fnVars, max_workers, contents, processed_files,
                   combined_results, file_counter, dir_pc, sub_idx, col_idx,
                   open_handles, saved>>

\* mutation of AlreadyProcessed: the filter of line 209 is lost
AlreadyProcessed_never(path) == FALSE

\* line 209: is the path left out of the dispatch
AlreadyProcessed(path) == path \in processed_files

\* lines 206-210: the comprehension reaches one path and submits it unless
\* it is in processed_files
Submit ==
    /\ dir_pc = "submitting"
    /\ sub_idx <= Len(pdf_files)
    /\ tasks' = IF AlreadyProcessed(pdf_files[sub_idx]) THEN tasks
                ELSE Append(tasks, NewTask(pdf_files[sub_idx]))
    /\ sub_idx' = sub_idx + 1
    /\ dir_pc' = IF sub_idx = Len(pdf_files) THEN "collecting" ELSE dir_pc
    /\ UNCHANGED <<genVars, fnVars, max_workers, contents, processed_files,
                   combined_results, file_counter, pdf_files, col_idx,
                   open_handles, assigned, logged_errors, saved, returned,
                   dir_calls>>

\* a pool thread takes the oldest queued task while fewer than max_workers
\* are running; lines 148-150: read_file and fitz.open, which raise on a
\* file that cannot be read or parsed
StartTask(i) ==
    /\ tasks[i].state = "queued"
    /\ \A j \in 1..(i - 1) : tasks[j].state # "queued"
    /\ Cardinality({j \in TaskIds : Running(j)}) < max_workers
    /\ IF Parsed(contents[tasks[i].path]).openable
       THEN /\ tasks' = [tasks EXCEPT ![i].state = "opened"]
            /\ open_handles' = open_handles \cup {i}
       ELSE /\ tasks' = [tasks EXCEPT ![i].state = "failed"]
            /\ UNCHANGED open_handles
    /\ UNCHANGED <<genVars, fnVars, max_workers, contents, processed_files,
                   combined_results, file_counter, dir_pc, pdf_files, sub_idx,
                   col_idx, assigned, logged_errors, saved, returned, dir_calls>>

\* line 50: doc_id = f"doc_{self.file_counter:03d}" reads the counter
GenerateIdFormat(i) ==
    /\ tasks[i].state = "opened"
    /\ tasks' = [tasks EXCEPT ![i].state = "formatted",
                              ![i].doc_id = DocId(file_counter)]
    /\ assigned' = Append(assigned, [path |-> tasks[i].path,
                                      doc_id |-> DocId(file_counter)])
    /\ UNCHANGED <<genVars, fnVars, max_workers, contents, processed_files,
                   combined_results, file_counter, dir_pc, pdf_files, sub_idx,
                   col_idx, open_handles, logged_errors, saved, returned,
                   dir_calls>>

\* line 51: self.file_counter += 1 reads the counter ...
GenerateIdLoad(i) ==
    /\ tasks[i].state = "formatted"
    /\ tasks' = [tasks EXCEPT ![i].state = "loaded",
                              ![i].counter_read = file_counter]
    /\ UNCHANGED <<genVars, fnVars, max_workers, contents, processed_files,
                   combined_results, file_counter, dir_pc, pdf_files, sub_idx,
                   col_idx, open_handles, assigned, logged_errors, saved,
                   returned, dir_calls>>

\* ... and writes the sum back
GenerateIdStore(i) ==
    /\ tasks[i].state = "loaded"
    /\ file_counter' = tasks[i].counter_read + 1
    /\ tasks' = [tasks EXCEPT ![i].state = "has_id"]
    /\ UNCHANGED <<genVars, fnVars, max_workers, contents, processed_files,
                   combined_results, dir_pc, pdf_files, sub_idx, col_idx,
                   open_handles, assigned, logged_errors, saved, returned,
                   dir_calls>>

\* file_counter never passes one id per path and call
MaxCounter == Cardinality(Paths) * MaxDirCalls + 1

\* Extract of every stored document under every id, computed once
Extracted ==
    [name \in Documents, n \in 1..MaxCounter |-> Extract(Parsed(name), DocId(n))]

\* mutation of CloseHandle: doc.close() after the loops instead of in finally
CloseHandle_onSuccess(handles, i, raised) ==
    IF raised THEN handles ELSE handles \ {i}

\* lines 182-183: finally: doc.close(), reached whether the loops raised or not
CloseHandle(handles, i, raised) == handles \ {i}

\* lines 153-183: the extraction loops on the task's own data, and doc.close()
\* in the finally clause whether they raised or not
ExtractTask(i) ==
    /\ tasks[i].state = "has_id"
    /\ LET result == Extracted[contents[tasks[i].path], tasks[i].doc_id[2]]
       IN  tasks' = [tasks EXCEPT
                        ![i].state = IF result.raised THEN "failed" ELSE "extracted",
                        ![i].findings = result.findings]
    /\ open_handles' =
          CloseHandle(open_handles, i,
                      Extracted[contents[tasks[i].path], tasks[i].doc_id[2]].raised)
    /\ UNCHANGED <<genVars, fnVars, max_workers, contents, processed_files,
                   combined_results, file_counter, dir_pc, pdf_files, sub_idx,
                   col_idx, assigned, logged_errors, saved, returned, dir_calls>>

\* mutation of HasFindings: the test of line 185 is lost
HasFindings_always(findings) == TRUE

\* line 185: is the document entered in the registry
HasFindings(findings) == DOMAIN findings # {}

\* lines 185-194: the registry entry of a document with findings, and return
StoreTask(i) ==
    /\ tasks[i].state = "extracted"
    /\ combined_results' =
          IF HasFindings(tasks[i].findings)
          THEN DictSet(combined_results, tasks[i].doc_id,
                       [original_filename |-> Basename(tasks[i].path),
                        findings |-> tasks[i].findings])
          ELSE combined_results
    /\ tasks' = [tasks EXCEPT ![i].state = "done"]
    /\ UNCHANGED <<genVars, fnVars, max_workers, contents, processed_files,
                   file_counter, dir_pc, pdf_files, sub_idx, col_idx,
                   open_handles, assigned, logged_errors, saved, returned,
                   dir_calls>>

\* lines 212-218: future.result() of the next future, once it is finished
Collect ==
    /\ dir_pc = "collecting"
    /\ col_idx <= Len(tasks)
    /\ Finished(col_idx)
    /\ IF tasks[col_idx].state = "done"
       THEN /\ processed_files' = processed_files \cup {tasks[col_idx].path}
            /\ UNCHANGED logged_errors
       ELSE /\ logged_errors' = logged_errors \cup {tasks[col_idx].path}
            /\ UNCHANGED processed_files
    /\ col_idx' = col_idx + 1
    /\ UNCHANGED <<genVars, fnVars, max_workers, contents, combined_results,
                   file_counter, dir_pc, pdf_files, sub_idx, tasks,
                   open_handles, assigned, saved, returned, dir_calls>>

\* lines 219-228: the pool is shut down, the registry is saved when it holds
\* anything, and the call returns it
FinishDirectory ==
    /\ dir_pc = "collecting"
    /\ col_idx > Len(tasks)
    /\ \A i \in TaskIds : Finished(i)
    /\ saved' = IF DOMAIN combined_results # {} THEN combined_results ELSE saved
    /\ returned' = "ok"
    /\ dir_pc' = "idle"
    /\ UNCHANGED <<genVars, fnVars, max_workers, contents, processed_files,
                   combined_results, file_counter, pdf_files, sub_idx, col_idx,
                   tasks, open_handles, assigned, logged_errors, dir_calls>>

NextPdf ==
    \/ \E listing \in Listings : process_directory(listing)
    \/ process_directory_empty
    \/ Submit
    \/ \E i \in TaskIds : StartTask(i)
    \/ \E i \in TaskIds : GenerateIdFormat(i)
    \/ \E i \in TaskIds : GenerateIdLoad(i)
    \/ \E i \in TaskIds : GenerateIdStore(i)
    \/ \E i \in TaskIds : ExtractTask(i)
    \/ \E i \in TaskIds : StoreTask(i)
    \/ Collect
    \/ FinishDirectory

SpecPdf == InitPdf /\ [][NextPdf]_vars

(***************************************************************************)
(* The extraction functions on one page                                    *)
(***************************************************************************)

\* longest block list handed to _find_keyword_context
MaxBlocks == 5
\* longest block list of a page handed to the extraction loops
MaxPageBlocks == 3

\* " "
TextSpace == <<" ">>
\* a block of two lines, the second holding only a blank span
BlankLineBlock ==
    [has_lines |-> TRUE,
     lines |-> << [has_spans |-> TRUE, spans |-> <<Span(TextFeeDue)>>],
                  [has_spans |-> TRUE, spans |-> <<Span(TextSpace)>>] >>]

\* "Terms:"
TextTermsColon == <<"T", "e", "r", "m", "s", ":">>
\* a block of two lines in body type, the first ending with a colon
ColonLineBlock ==
    [has_lines |-> TRUE,
     lines |-> << [has_spans |-> TRUE, spans |-> <<Span(TextTermsColon)>>],
                  [has_spans |-> TRUE, spans |-> <<Span(TextHello)>>] >>]

\* the blocks a page is made of
BlockKinds ==
    {ImageBlock, TextBlock(Span(TextFeeTax)), TextBlock(BoldSpan(TextTerms)),
     TextBlock(Span(TextHello)), BlankLineBlock, ColonLineBlock}

BlockLists == UNION {[1..n -> BlockKinds] : n \in 1..MaxBlocks}
PageLists == UNION {[1..n -> BlockKinds] : n \in 1..MaxPageBlocks}

\* a page with these blocks, no function applied yet
PageAt(lists) ==
    /\ retries = MaxRetries
    /\ GenStart
    /\ max_workers = 1
    /\ contents = [p \in {} |-> <<>>]
    /\ PdfStart
    /\ ParseStart
    /\ MainStart
    /\ MaskStart
    /\ BlockStart
    /\ PromptStart
    /\ page_blocks \in lists
    /\ page_pc = "idle"
    /\ page_keyword = <<>>
    /\ page_block_idx = 0
    /\ window = NoContext
    /\ page_result = [raised |-> FALSE, findings |-> EmptyDict]

InitWindow == PageAt(BlockLists)
InitPage == PageAt(PageLists)

\* line 168: one call of _find_keyword_context on the page
FindKeywordContext(kw, m) ==
    /\ page_pc = "idle"
    /\ page_keyword' = kw
    /\ page_block_idx' = m
    /\ window' = _find_keyword_context(page_blocks, kw, m)
    /\ page_pc' = "window"
    /\ UNCHANGED <<genVars, pdfVars, blockVars, promptVars, parseVars, mainVars, maskVars, page_blocks,
                   page_result>>

\* lines 153-183 on a document of this one page
ExtractPage ==
    /\ page_pc = "idle"
    /\ page_result' =
          Extract([openable |-> TRUE,
                   pages |-> << [ok |-> TRUE, blocks |-> page_blocks] >>],
                  DocId(1))
    /\ page_pc' = "extracted"
    /\ UNCHANGED <<genVars, pdfVars, blockVars, promptVars, parseVars, mainVars, maskVars, page_blocks,
                   page_keyword, page_block_idx, window>>

NextWindow ==
    \E k \in 1..Len(config_keywords), m \in 0..(Len(page_blocks) - 1) :
        FindKeywordContext(config_keywords[k], m)

SpecWindow == InitWindow /\ [][NextWindow]_vars

NextPage == ExtractPage

SpecPage == InitPage /\ [][NextPage]_vars

(***************************************************************************)
(* parse_qa_response on one response text                                  *)
(***************************************************************************)

\* most lines of a response text
MaxLines == 3

\* "Q: as per?"
LineQValid == <<"Q", ":", " ", "a", "s", " ", "p", "e", "r", "?">>
\* "Q: w "
LineQPlain == <<"Q", ":", " ", "w", " ">>
\* "Q: as per"
LineQNoMark == <<"Q", ":", " ", "a", "s", " ", "p", "e", "r">>
\* "Q:"
LineQEmpty == <<"Q", ":">>
\* "A: y)"
LineAValid == <<"A", ":", " ", "y", ")">>
\* " A: v"
LineAPlain == <<" ", "A", ":", " ", "v">>
\* "A:"
LineAEmpty == <<"A", ":">>
\* "x"
LineOther == <<"x">>
\* ""
LineBlank == <<>>

LineKinds ==
    {LineQValid, LineQPlain, LineQNoMark, LineQEmpty, LineAValid, LineAPlain, LineAEmpty,
     LineOther, LineBlank}

\* the lines of every response text, joined by newlines into the text itself
ResponseLines == UNION {[1..n -> LineKinds] : n \in 1..MaxLines}
ResponseTexts == {Join(<<"\n">>, ls) : ls \in ResponseLines}

\* any response text, not parsed yet
InitParse ==
    /\ retries = MaxRetries
    /\ GenStart
    /\ max_workers = 1
    /\ contents = [p \in {} |-> <<>>]
    /\ PdfStart
    /\ PageStart
    /\ MainStart
    /\ MaskStart
    /\ BlockStart
    /\ PromptStart
    /\ parse_input \in ResponseTexts
    /\ parse_output = [t \in PromptTypeSet |-> NotParsed]

\* line 264: one call of parse_qa_response on the text
ParseResponse(prompt_type) ==
    /\ ~parse_output[prompt_type].done
    /\ parse_output' =
          [parse_output EXCEPT ![prompt_type] =
              [done |-> TRUE, pairs |-> parse_qa_response(parse_input, prompt_type)]]
    /\ UNCHANGED <<genVars, pdfVars, blockVars, promptVars, pageVars, mainVars, maskVars, parse_input>>

NextParse == \E t \in PromptTypeSet : ParseResponse(t)

SpecParse == InitParse /\ [][NextParse]_vars

(***************************************************************************)
(* main: one run from the configuration file to the end                    *)
(*                                                                         *)
(* A configuration is [keywords, default_prompt, provider, gcp_ids]:       *)
(* whether 'keywords' is a non-empty list, whether prompts['default'] is   *)
(* "set", "empty" (the empty string) or "absent", storage.provider, and    *)
(* whether storage.project_id and storage.bucket_name are both given.      *)
(***************************************************************************)

\* most files of the input directory of a run
MaxInputFiles == 2

Configs ==
    [keywords : BOOLEAN, default_prompt : {"set", "empty", "absent"},
     provider : {"local", "gcp", "s3"}, gcp_ids : BOOLEAN]

\* --single-file on one file, or a directory of 0..MaxInputFiles files
Args ==
    {[single_file |-> TRUE, files |-> 1]}
        \cup [single_file : {FALSE}, files : 0..MaxInputFiles]

\* ConfigurationManager.validate: the four checks, answered by True or False;
\* the ValueError it raises inside is caught at line 124
validate(config) ==
    /\ config.keywords
    /\ config.default_prompt = "set"
    /\ config.provider \in {"local", "gcp"}
    /\ (config.provider = "gcp" => config.gcp_ids)

\* StorageFactory.create_provider: "ok", or the exception it raises
create_provider(config) ==
    IF config.provider = "local" THEN "ok"
    ELSE IF config.provider = "gcp"
    THEN IF config.gcp_ids THEN "ok" ELSE "ValueError"
    ELSE "ValueError"

\* any configuration file and command line, main not started
InitMain ==
    /\ retries = MaxRetries
    /\ GenStart
    /\ max_workers = 1
    /\ contents = [p \in {} |-> <<>>]
    /\ PdfStart
    /\ PageStart
    /\ ParseStart
    /\ MaskStart
    /\ BlockStart
    /\ PromptStart
    /\ main_config \in Configs
    /\ main_args \in Args
    /\ main_pc = "start"
    /\ main_read = 0
    /\ main_found = 0
    /\ main_requested = FALSE
    /\ main_raised = "none"

\* line 44: ConfigurationManager(args.config) loads the file and fills its
\* fields; nothing calls validate
LoadConfiguration ==
    /\ main_pc = "start"
    /\ main_pc' = "configured"
    /\ UNCHANGED <<genVars, pdfVars, blockVars, promptVars, pageVars, parseVars, maskVars, main_config,
                   main_args,
                   main_read, main_found, main_requested, main_raised>>

\* line 47: PDFProcessor(config) asks the factory for the storage provider
CreateProcessor ==
    /\ main_pc = "configured"
    /\ IF create_provider(main_config) = "ok"
       THEN main_pc' = "processor" /\ UNCHANGED main_raised
       ELSE main_pc' = "raised" /\ main_raised' = create_provider(main_config)
    /\ UNCHANGED <<genVars, pdfVars, blockVars, promptVars, pageVars, parseVars, maskVars, main_config,
                   main_args,
                   main_read, main_found, main_requested>>

\* line 48: QAGenerator(config) stores the configuration
CreateGenerator ==
    /\ main_pc = "processor"
    /\ main_pc' = "extracting"
    /\ UNCHANGED <<genVars, pdfVars, blockVars, promptVars, pageVars, parseVars, maskVars, main_config,
                   main_args,
                   main_read, main_found, main_requested, main_raised>>

\* lines 61 and 200-201: process_directory on a directory without PDF files
NoFiles ==
    /\ main_pc = "extracting"
    /\ main_args.files = 0
    /\ main_pc' = "raised"
    /\ main_raised' = "ValueError"
    /\ UNCHANGED <<genVars, pdfVars, blockVars, promptVars, pageVars, parseVars, maskVars, main_config,
                   main_args,
                   main_read, main_found, main_requested>>

\* lines 52 and 61: one more document is read and extracted; it can produce
\* findings only for a configured keyword
ReadDocument(found) ==
    /\ main_pc = "extracting"
    /\ main_read < main_args.files
    /\ found => main_config.keywords
    /\ main_read' = main_read + 1
    /\ main_found' = main_found + (IF found THEN 1 ELSE 0)
    /\ UNCHANGED <<genVars, pdfVars, blockVars, promptVars, pageVars, parseVars, maskVars, main_config,
                   main_args,
                   main_pc, main_requested, main_raised>>

\* lines 58 and 62: process_content on what was extracted.  Without findings it
\* returns at once (qa_generator.py lines 339-341); otherwise the first unit
\* looks its template up in generate_prompt (line 185), which raises KeyError
\* for an absent template and formats an empty one like any other, and then
\* posts the request (ollama.retries > 0)
Generate ==
    /\ main_pc = "extracting"
    /\ main_args.files > 0
    /\ main_read = main_args.files
    /\ IF main_found = 0
       THEN main_pc' = "completed" /\ UNCHANGED <<main_requested, main_raised>>
       ELSE IF main_config.default_prompt = "absent"
       THEN /\ main_pc' = "raised"
            /\ main_raised' = "KeyError"
            /\ UNCHANGED main_requested
       ELSE /\ main_pc' = "completed"
            /\ main_requested' = TRUE
            /\ UNCHANGED main_raised
    /\ UNCHANGED <<genVars, pdfVars, blockVars, promptVars, pageVars, parseVars, maskVars, main_config,
                   main_args,
                   main_read, main_found>>

NextMain ==
    \/ LoadConfiguration
    \/ CreateProcessor
    \/ CreateGenerator
    \/ NoFiles
    \/ \E found \in BOOLEAN : ReadDocument(found)
    \/ Generate

SpecMain == InitMain /\ [][NextMain]_vars

(***************************************************************************)
(* mask_sensitive_info on one text, then on its own result                 *)
(***************************************************************************)

\* most pieces a text is put together from
MaxPieces == 2

\* "12345"
PieceZip == <<"1", "2", "3", "4", "5">>
\* "123456789"
PiecePolicyNumber == <<"1", "2", "3", "4", "5", "6", "7", "8", "9">>
\* "123-45-6789"
PieceSsn == <<"1", "2", "3", "-", "4", "5", "-", "6", "7", "8", "9">>
\* "555-123-4567"
PiecePhone == <<"5", "5", "5", "-", "1", "2", "3", "-", "4", "5", "6", "7">>
\* "Jan 5, 2024"
PieceMonthDate == <<"J", "a", "n", " ", "5", ",", " ", "2", "0", "2", "4">>
\* "1/2/20"
PieceNumericDate == <<"1", "/", "2", "/", "2", "0">>
\* "3 days"
PieceTimePeriod == <<"3", " ", "d", "a", "y", "s">>
\* "a@b.co"
PieceEmail == <<"a", "@", "b", ".", "c", "o">>
\* "Unum "
PieceCompany == <<"U", "n", "u", "m", " ">>
\* " "
PieceSpace == <<" ">>
\* "-"
PieceHyphen == <<"-">>
\* "12 Elm St, Rye, NY 10580"
PieceAddress ==
    <<"1", "2", " ", "E", "l", "m", " ", "S", "t", ",", " ", "R", "y", "e",
      ",", " ", "N", "Y", " ", "1", "0", "5", "8", "0">>

MaskPieces ==
    {PieceZip, PiecePolicyNumber, PieceSsn, PiecePhone, PieceMonthDate,
     PieceNumericDate, PieceTimePeriod, PieceEmail, PieceCompany, PieceSpace,
     PieceHyphen, PieceAddress}

RECURSIVE TextsOf(_)
\* the texts put together from exactly n pieces
TextsOf(n) ==
    IF n = 0 THEN {<<>>}
    ELSE {piece \o rest : piece \in MaskPieces, rest \in TextsOf(n - 1)}

\* the texts handed to mask_sensitive_info
MaskTexts == UNION {TextsOf(n) : n \in 0..MaxPieces}

InitMask ==
    /\ retries = MaxRetries
    /\ GenStart
    /\ max_workers = 1
    /\ contents = [p \in {} |-> <<>>]
    /\ PdfStart
    /\ PageStart
    /\ ParseStart
    /\ MainStart
    /\ BlockStart
    /\ PromptStart
    /\ mask_input \in MaskTexts
    /\ mask_text = mask_input
    /\ mask_pc = 1
    /\ mask_pass = 1
    /\ mask_first = <<>>
    /\ mask_applied = <<>>

\* lines 22-33: the next statement of mask_sensitive_info assigns to text
ApplyStatement ==
    /\ mask_pass \in {1, 2}
    /\ mask_pc \in 1..Len(AllRules)
    /\ mask_text' = ApplyRule(AllRules[mask_pc], mask_text)
    /\ mask_applied' = Append(mask_applied, AllRules[mask_pc].name)
    /\ mask_pc' = mask_pc + 1
    /\ UNCHANGED <<genVars, pdfVars, blockVars, promptVars, pageVars, parseVars, mainVars, mask_input,
                   mask_pass, mask_first>>

\* line 35: the first call returns, and its result is handed to
\* mask_sensitive_info again
MaskAgain ==
    /\ mask_pass = 1
    /\ mask_pc = Len(AllRules) + 1
    /\ mask_first' = mask_text
    /\ mask_pass' = 2
    /\ mask_pc' = 1
    /\ mask_applied' = <<>>
    /\ UNCHANGED <<genVars, pdfVars, blockVars, promptVars, pageVars, parseVars, mainVars, mask_input,
                   mask_text>>

NextMask == ApplyStatement \/ MaskAgain

SpecMask == InitMask /\ [][NextMask]_vars

(***************************************************************************)
(* _get_block_text on one block                                            *)
(***************************************************************************)

\* most lines of a block handed to _get_block_text
MaxBlockLines == 3

\* " hello "
TextHelloPadded == <<" ">> \o TextHello \o <<" ">>
\* "due."
TextDue == <<"d", "u", "e", ".">>

\* the lines a block is made of: without a "spans" key, with an empty list of
\* spans, with a blank span, a closed sentence, an open one, one to trim, and
\* one of two spans
BlockLineKinds ==
    {[has_spans |-> FALSE, spans |-> <<>>],
     [has_spans |-> TRUE, spans |-> <<>>],
     [has_spans |-> TRUE, spans |-> <<Span(TextSpace)>>],
     [has_spans |-> TRUE, spans |-> <<Span(TextFeeTax)>>],
     [has_spans |-> TRUE, spans |-> <<Span(TextFeeDue)>>],
     [has_spans |-> TRUE, spans |-> <<Span(TextHelloPadded)>>],
     [has_spans |-> TRUE, spans |-> <<Span(TextTermsColon), Span(TextDue)>>]}

\* a block without a "lines" key, and the blocks of up to MaxBlockLines lines
BlockArgs ==
    {ImageBlock}
    \cup {[has_lines |-> TRUE, lines |-> ls] :
             ls \in UNION {[1..n -> BlockLineKinds] : n \in 0..MaxBlockLines}}

InitBlock ==
    /\ retries = MaxRetries
    /\ GenStart
    /\ max_workers = 1
    /\ contents = [p \in {} |-> <<>>]
    /\ PdfStart
    /\ PageStart
    /\ ParseStart
    /\ MainStart
    /\ MaskStart
    /\ PromptStart
    /\ block_arg \in BlockArgs
    /\ block_pc = "idle"
    /\ block_text = <<>>

\* one call of _get_block_text on the block
GetBlockText ==
    /\ block_pc = "idle"
    /\ block_text' = _get_block_text(block_arg)
    /\ block_pc' = "returned"
    /\ UNCHANGED <<genVars, pdfVars, pageVars, parseVars, mainVars, maskVars,
                   promptVars, block_arg>>

NextBlock == GetBlockText

SpecBlock == InitBlock /\ [][NextBlock]_vars

(***************************************************************************)
(* QAGenerator.generate_prompt on one list of occurrences                  *)
(*                                                                         *)
(* An occurrence is a record; a key the dict lacks is a field the record   *)
(* lacks.                                                                  *)
(***************************************************************************)

\* d.get(key, default)
Get(d, key, default) == IF key \in DOMAIN d THEN d[key] ELSE default

\* str.isdigit() on the page values at hand
IsDigit(s) == s # <<>> /\ \A i \in 1..Len(s) : s[i] \in Digits

\* the value of a decimal digit
DigitValue(c) ==
    CASE c = "0" -> 0 [] c = "1" -> 1 [] c = "2" -> 2 [] c = "3" -> 3
      [] c = "4" -> 4 [] c = "5" -> 5 [] c = "6" -> 6 [] c = "7" -> 7
      [] c = "8" -> 8 [] c = "9" -> 9

RECURSIVE IntOf(_)
\* int(s) of a string of digits
IntOf(s) ==
    IF s = <<>> THEN 0
    ELSE 10 * IntOf(SubSeq(s, 1, Len(s) - 1)) + DigitValue(s[Len(s)])

\* mutation of PageKey: every page value is compared as text
PageKey_text(x) == [is_int |-> FALSE, n |-> 0, s |-> x]

\* lines 182-183: the sort key, an int for a string of digits, else the string
PageKey(x) ==
    IF IsDigit(x) THEN [is_int |-> TRUE, n |-> IntOf(x), s |-> <<>>]
    ELSE [is_int |-> FALSE, n |-> 0, s |-> x]

\* a < b on two keys of one type
KeyLess(a, b) == IF a.is_int THEN a.n < b.n ELSE StrLess(a.s, b.s)

\* lines 171-173: the set of the page values of the occurrences that have one
Pages(content) ==
    {content[i].location.page_number :
        i \in {k \in 1..Len(content) :
                  /\ "location" \in DOMAIN content[k]
                  /\ "page_number" \in DOMAIN content[k].location}}

\* sorted(pages, key=...) compares an int key with a str key when the set holds
\* values of both kinds, which raises TypeError
SortRaises(pages) == \E a, b \in pages : PageKey(a).is_int # PageKey(b).is_int

\* sorted(pages, key=...): the values in ascending key order
SortedPages(pages) ==
    CHOOSE q \in [1..Cardinality(pages) -> pages] :
        /\ \A i, j \in DOMAIN q : i # j => q[i] # q[j]
        /\ \A i, j \in DOMAIN q : i < j => ~KeyLess(PageKey(q[j]), PageKey(q[i]))

\* [:2]
FirstTwo(q) == SubSeq(q, 1, IF Len(q) < 2 THEN Len(q) ELSE 2)

\* lines 175-180: what one occurrence adds to merged_content
ContentText(occurrence) ==
    IF "content" \in DOMAIN occurrence
    THEN LET selected_text == Strip(Get(occurrence.content, "selected_text", <<>>))
             full_context ==
                 Strip(Get(occurrence.content, "full_extracted_part", <<>>))
         IN  IF full_context # <<>> THEN full_context ELSE selected_text
    ELSE <<>>

RECURSIVE MergedContent(_)
\* lines 171-180: merged_content after the loop over the occurrences
MergedContent(content) ==
    IF content = <<>> THEN <<>>
    ELSE LET content_text == ContentText(Head(content))
         IN  (IF content_text # <<>> THEN <<content_text>> ELSE <<>>)
                 \o MergedContent(Tail(content))

\* config.prompts: a template is a list of literal texts and of field names
Lit2(text) == [field |-> "", text |-> text]
Field(name) == [field |-> name, text |-> <<>>]
Prompts ==
    [default |-> <<Lit2(<<"k", "=">>), Field("keyword"), Lit2(<<" ", "d", "=">>),
                   Field("policy_doc_name"), Lit2(<<" ", "p", "=">>),
                   Field("formatted_pages"), Lit2(<<" ", "c", "=">>),
                   Field("content")>>,
     alternative |-> <<Field("content"), Lit2(<<" ", "@">>),
                       Field("formatted_pages"), Lit2(<<" ", "#">>),
                       Field("keyword"), Lit2(<<" ">>), Field("policy_doc_name")>>]

RECURSIVE Format(_, _)
\* template.format(**fields)
Format(template, fields) ==
    IF template = <<>> THEN <<>>
    ELSE (IF Head(template).field = "" THEN Head(template).text
          ELSE fields[Head(template).field]) \o Format(Tail(template), fields)

\* QAGenerator.generate_prompt
generate_prompt(policy_doc_name, keyword, content, prompt_type) ==
    LET pages == Pages(content)
        merged_content == MergedContent(content)
    IN  IF SortRaises(pages)
        THEN [raised |-> TRUE, text |-> <<>>, prompt_type |-> prompt_type]
        ELSE LET formatted_pages == Join(<<",", " ">>, FirstTwo(SortedPages(pages)))
             IN  [raised |-> FALSE,
                  text |-> Format(Prompts[prompt_type],
                                  [keyword |-> keyword,
                                   policy_doc_name |-> policy_doc_name,
                                   formatted_pages |-> formatted_pages,
                                   content |-> Join(<<" ">>, merged_content)]),
                  prompt_type |-> prompt_type]

\* most occurrences handed to generate_prompt
MaxOccurrences == 3

\* page values in words, as _create_metadata renders them, and in digits
PageWords == {<<"o", "n", "e">>, <<"t", "w", "o">>, <<"t", "h", "r", "e", "e">>}
PageDigits == {<<"2">>, <<"1", "0">>, <<"3">>}

\* "[POLICY_DOC_001]"
PolicyDocText ==
    <<"[", "P", "O", "L", "I", "C", "Y", "_", "D", "O", "C", "_", "0", "0", "1", "]">>

\* the content of an occurrence: either context, no context, or neither text
OccurrenceContents ==
    {[selected_text |-> Fee, full_extracted_part |-> <<"f", "e", "e", " ", "t", "a", "x">>],
     [selected_text |-> Fee, full_extracted_part |-> TextFeeDue],
     [selected_text |-> Fee, full_extracted_part |-> <<>>],
     [selected_text |-> <<>>, full_extracted_part |-> <<>>]}

\* the occurrences over a set of page values: with page and content, without a
\* location, and without a content
OccurrencesOver(pages) ==
    {[location |-> [page_number |-> p], content |-> c] :
        p \in pages, c \in OccurrenceContents}
    \cup {[content |-> c] : c \in {x \in OccurrenceContents : x.full_extracted_part = TextFeeDue}}
    \cup {[location |-> [page_number |-> p]] : p \in {x \in pages : Len(x) # 3}}

\* the lists of occurrences of one keyword: all page values of one kind
PromptContents ==
    UNION {UNION {[1..n -> OccurrencesOver(pages)] : n \in 1..MaxOccurrences} :
              pages \in {PageWords, PageDigits}}

InitPrompt ==
    /\ retries = MaxRetries
    /\ GenStart
    /\ max_workers = 1
    /\ contents = [p \in {} |-> <<>>]
    /\ PdfStart
    /\ PageStart
    /\ ParseStart
    /\ MainStart
    /\ MaskStart
    /\ BlockStart
    /\ prompt_content \in PromptContents
    /\ prompt_pc = "idle"
    /\ prompt_out = [raised |-> FALSE, text |-> <<>>, prompt_type |-> "default"]

\* one call of generate_prompt on the occurrences
GeneratePrompt(prompt_type) ==
    /\ prompt_pc = "idle"
    /\ prompt_out' = generate_prompt(PolicyDocText, Fee, prompt_content, prompt_type)
    /\ prompt_pc' = "returned"
    /\ UNCHANGED <<genVars, pdfVars, pageVars, parseVars, mainVars, maskVars,
                   blockVars, prompt_content>>

NextPrompt == \E t \in PromptTypeSet : GeneratePrompt(t)

SpecPrompt == InitPrompt /\ [][NextPrompt]_vars

(***************************************************************************)
(* Properties of the generation phase (checked under SpecGen)              *)
(***************************************************************************)

InGenerate == pc \in {"attempting", "retrying", "success", "exhausted"}

\* C1: when generate_qa_pairs succeeds on attempt k+1 after k failed attempts,
\* exactly k backoff sleeps happened and the i-th lasted retry_delay*(i+1)
C1_BackoffSchedule ==
    pc = "success" =>
        /\ Len(sleeps) = requests - 1
        /\ \A i \in 1..Len(sleeps) : sleeps[i] = retry_delay * (i + 1)

\* C1 witness: retries = 3, two failures then a success, sleeps of
\* retry_delay*2 then retry_delay*3
C1_TwoFailuresThenSuccess ==
    /\ pc = "success"
    /\ retries = 3
    /\ requests = 3
    /\ sleeps = <<retry_delay * 2, retry_delay * 3>>

\* C2: one unit gets at most `retries` requests; when every attempt fails the
\* loop ends exhausted after exactly `retries` requests with an empty result and
\* without a sleep after the last failure; with retries = 0 nothing is requested
C2_BoundedAttempts ==
    /\ requests <= retries
    /\ retries = 0 => requests = 0
    /\ pc = "exhausted" =>
          /\ requests = retries
          /\ qa_pairs = <<>>
          /\ Len(sleeps) = (IF retries = 0 THEN 0 ELSE retries - 1)
          /\ \A i \in 1..Len(sleeps) : sleeps[i] <= retry_delay * retries

\* C2 witness: three attempts, all failed, two sleeps
C2_AllAttemptsFailed ==
    /\ pc = "exhausted"
    /\ retries = 3
    /\ requests = 3
    /\ Len(sleeps) = 2

\* C3 as stated: an attempt is a SUCCESS exactly when the response has status
\* 200 and a non-empty response text
C3_SuccessIffNonEmptyText ==
    outcome # NoOutcome =>
        (pc = "success" <=>
            (outcome.kind = "response" /\ outcome.status = 200
             /\ outcome.text # <<>>))

\* C3 amended: an attempt is a SUCCESS exactly when the response has status 200
\* and a response text that is non-empty after stripping whitespace; every other
\* outcome leads to RETRYING, which counts the attempt and goes back to the
\* loop test; after a SUCCESS the call returns, also with no accepted pair
C3_SuccessIffNonBlankText ==
    /\ [](outcome # NoOutcome =>
            /\ pc \in {"success", "retrying"}
            /\ pc = "success" <=>
                  (outcome.kind = "response" /\ outcome.status = 200
                   /\ Strip(outcome.text) # <<>>))
    /\ [][pc = "success" => (pc' = "keyword" /\ requests' = 0)]_vars
    /\ [][pc = "retrying" =>
            (pc' = "attempting" /\ retry_count' = retry_count + 1
             /\ requests' = requests)]_vars

\* C3 witness: a SUCCESS whose text yielded no accepted pair
C3_SuccessWithoutPairs ==
    /\ pc = "success"
    /\ qa_pairs = <<>>
    /\ requests < retries

\* C4: no generate_qa_pairs call is ever active for a unit of the completed
\* set, and a step leaves the recorded outputs of every completed unit as they
\* are: its key, its JSON entry and its text entries
C4_CompletedNeverResubmitted ==
    /\ [](InGenerate =>
            checkpoint_key(CurDoc.doc_id, CurKeyword, CurType)
                \notin processed_sections)
    /\ [][\A key \in processed_sections :
            LET doc_id == key[1]
                t == key[3]
                name == _get_policy_doc_name(doc_id)
            IN  /\ key \in processed_sections'
                /\ qa_json'[t][name][key[2]] = qa_json[t][name][key[2]]
                /\ SubSeq(qa_text'[t][doc_id], 1, Len(qa_text[t][doc_id]))
                      = qa_text[t][doc_id]]_vars

\* C4 witness: in a pass that recorded nothing so far, the first keyword of
\* doc_001 has been passed over because its default unit is in the completed set
C4_UnitSkipped ==
    /\ pc = "keyword"
    /\ calls = 2
    /\ doc_idx = 1
    /\ pt_idx = 1
    /\ kw_idx = 2
    /\ ~has_content
    /\ checkpoint_key(DocId(1), Fee, "default") \in processed_sections

RECURSIVE Entries(_)
\* the text entries of a list of pairs
Entries(pairs) ==
    IF pairs = <<>> THEN <<>> ELSE <<QAText(Head(pairs))>> \o Entries(Tail(pairs))

\* s holds part as a contiguous run
HasRun(s, part) ==
    \E i \in 0..(Len(s) - Len(part)) : SubSeq(s, i + 1, i + Len(part)) = part

\* C5: every key of the completed set belongs to a unit whose non-empty list of
\* pairs is in the JSON structure and in the text entries of its prompt type
C5_CompleteOnlyIfRecorded ==
    \A key \in processed_sections :
        LET doc_id == key[1]
            t == key[3]
            name == _get_policy_doc_name(doc_id)
        IN  /\ name \in DOMAIN qa_json[t]
            /\ key[2] \in DOMAIN qa_json[t][name]
            /\ qa_json[t][name][key[2]].qa_pairs # <<>>
            /\ doc_id \in DOMAIN qa_text[t]
            /\ HasRun(qa_text[t][doc_id], Entries(qa_json[t][name][key[2]].qa_pairs))

\* C5 witness: after one call, a unit is complete and a unit that was attempted
\* in the same call is not
C5_SomeCompleteSomeNot ==
    /\ pc = "idle"
    /\ calls = 1
    /\ checkpoint_key(DocId(1), Fee, "default") \in processed_sections
    /\ checkpoint_key(DocId(1), Fee, "alternative") \notin processed_sections


\* the documents holding accumulated Q&A text in one variant
DocsWithText(t) == {d \in DOMAIN qa_text[t] : qa_text[t][d] # <<>>}

\* the statistics of each such document's text as it stands
TextStats(t) ==
    [d \in DocsWithText(t) |-> count_text_stats(Join(EOS, qa_text[t][d]))]

\* C16: once process_content has returned, the combined JSON of each variant
\* lists per-document statistics for exactly the documents holding Q&A text,
\* each the statistics of that document's text, and its total is their sum
C16_TotalIsSumOfDocuments ==
    pc = "idle" =>
        \A t \in PromptTypeSet :
            <<Combined, "qa.json">> \in DOMAIN files[t] =>
                LET statistics == files[t][<<Combined, "qa.json">>].statistics
                IN  /\ statistics.per_document = TextStats(t)
                    /\ statistics.total = SumStats(TextStats(t), DocsWithText(t))

\* C16 witness: a combined JSON over two documents with text
C16_TwoDocumentsSummed ==
    /\ pc = "idle"
    /\ \E t \in PromptTypeSet :
          /\ <<Combined, "qa.json">> \in DOMAIN files[t]
          /\ Cardinality(DocsWithText(t)) = 2
          /\ \E d \in DocsWithText(t) : Len(qa_text[t][d]) >= 2
          /\ files[t][<<Combined, "qa.json">>].statistics.total.words > 0

\* the place of a variant in the order the claim gives
TypeRank(t) == IF t = "default" THEN 1 ELSE 2

\* process_content is inside its document loop
InDocumentLoop == pc \in {"keyword", "attempting", "retrying", "success", "exhausted"}

\* C20: a generation request is always made for the document and variant the
\* loops are at; inside one process_content call the document index never
\* decreases and moves one document at a time, and while it stays the variant
\* never goes back from alternative to default: every request of a document's
\* default pass precedes every request of its alternative pass, and every
\* request of a document precedes those of the next
C20_DefaultThenAlternativePerDocument ==
    /\ [](InGenerate =>
            /\ doc_idx \in 1..Len(masked_content)
            /\ pt_idx \in 1..Len(PromptTypes)
            /\ CurKeyword \in DOMAIN CurDoc.findings)
    /\ [][(InDocumentLoop /\ InDocumentLoop') =>
            \/ /\ doc_idx' = doc_idx
               /\ TypeRank(CurType') >= TypeRank(CurType)
            \/ /\ doc_idx' = doc_idx + 1
               /\ CurType = "alternative"
               /\ CurType' = "default"]_vars
    /\ [][(~InDocumentLoop /\ InDocumentLoop') =>
            (doc_idx' = 1 /\ CurType' = "default")]_vars

\* C20 witness: a retried request of the alternative pass of the second
\* document, the checkpoint showing a unit of its default pass completed
C20_SecondDocumentAlternativeRetry ==
    /\ pc = "attempting"
    /\ doc_idx = 2
    /\ CurType = "alternative"
    /\ requests >= 1
    /\ \E kw \in DOMAIN CurDoc.findings :
          checkpoint_key(CurDoc.doc_id, kw, "default") \in processed_sections

\* the position of a prompt type in the order of the two passes
TypeIndex(t) == CHOOSE i \in 1..Len(PromptTypes) : PromptTypes[i] = t

\* the pass of a document under a prompt type is over in the current call
PassOver(t, doc_id) ==
    \/ pc \in {"combine", "idle"}
    \/ \E i \in 1..Len(masked_content) :
          /\ masked_content[i].doc_id = doc_id
          /\ i < doc_idx \/ (i = doc_idx /\ TypeIndex(t) < pt_idx)

\* a log of saves ends with one combined save per prompt type and holds no other
CombinedOnceAtEnd(log) ==
    /\ Len(log) >= Len(PromptTypes)
    /\ \A i \in 1..Len(log) :
          log[i].kind = "combined" <=> i > Len(log) - Len(PromptTypes)
    /\ \A t \in PromptTypeSet :
          Cardinality({i \in 1..Len(log) : log[i] = CombinedSave(t)}) = 1

\* the individual saves of the log lie after the pass they belong to, one per pass
IndividualSavesAfterPass ==
    /\ \A i \in 1..Len(save_log) :
          save_log[i].kind = "doc" =>
              PassOver(save_log[i].prompt_type, save_log[i].doc_id)
    /\ \A i, j \in 1..Len(save_log) : save_log[i] = save_log[j] => i = j

\* a step that saves a document does so past the last keyword of the pass at
\* hand, for that pass, and only when the pass added content
IndividualSaveStep ==
    (pc = "keyword" /\ save_log' # save_log) =>
        /\ kw_idx > Len(config_keywords)
        /\ has_content
        /\ save_log' = Append(save_log, DocSave(CurType, CurDoc.doc_id))

\* C22 as stated: within one process_content call, a document is saved for a
\* variant after all of its units for that variant and only if a unit added
\* content in that pass, and every call saves the combined outputs of each
\* variant exactly once, after every document
C22_SavesInOrder ==
    /\ []IndividualSavesAfterPass
    /\ [][IndividualSaveStep]_vars
    /\ [][(pc' = "idle" /\ (pc # "idle" \/ calls' # calls)) =>
             CombinedOnceAtEnd(save_log')]_vars

\* C22, amended: the same, the combined saves being those of a call on
\* non-empty content (a call on empty content returns at line 341 and saves
\* nothing)
C22_SavesInOrderOfNonEmptyCall ==
    /\ []IndividualSavesAfterPass
    /\ [][IndividualSaveStep]_vars
    /\ [][(pc' = "idle" /\ pc # "idle") => CombinedOnceAtEnd(save_log')]_vars

\* a call returned that saved the first document under the default prompt
\* only and the second under the alternative prompt only
C22_OneVariantSavedPerDocument ==
    /\ pc = "idle"
    /\ save_log = <<DocSave("default", DocId(1)), DocSave("alternative", DocId(2)),
                    CombinedSave("default"), CombinedSave("alternative")>>

\* one sequence is the beginning of another
IsPrefix(a, b) == Len(a) <= Len(b) /\ SubSeq(b, 1, Len(a)) = a

\* C23: across process_content calls on one generator no key leaves the
\* completed set, no Q&A text entry of a document is removed or reordered, and
\* no recorded (policy document, keyword) JSON entry is removed or replaced
C23_AccumulatorsGrow ==
    [][/\ processed_sections \subseteq processed_sections'
       /\ \A t \in PromptTypeSet :
             /\ \A doc_id \in DOMAIN qa_text[t] :
                   /\ doc_id \in DOMAIN qa_text'[t]
                   /\ IsPrefix(qa_text[t][doc_id], qa_text'[t][doc_id])
             /\ IsPrefix(qa_text_keys[t], qa_text_keys'[t])
             /\ \A name \in DOMAIN qa_json[t] :
                   /\ name \in DOMAIN qa_json'[t]
                   /\ \A kw \in DOMAIN qa_json[t][name] :
                         /\ kw \in DOMAIN qa_json'[t][name]
                         /\ qa_json'[t][name][kw] = qa_json[t][name][kw]]_vars

\* a second call added a keyword to a policy document recorded by the first:
\* the entry of the wrapped single file stands next to the one of the corpus
C23_SecondCallAddedKeyword ==
    /\ calls = 2
    /\ _get_policy_doc_name(DocId(1)) \in DOMAIN qa_json["default"]
    /\ LET doc == qa_json["default"][_get_policy_doc_name(DocId(1))]
       IN  /\ DOMAIN doc = {Fee, Tax}
           /\ doc[Fee].original_filename = "single_file.pdf"
           /\ doc[Tax].original_filename = "a.pdf"
    /\ Len(qa_text["default"][DocId(1)]) = 2

\* the units of a call: the configured keywords with occurrences of every
\* document, under both prompt types
UnitsOf(content) ==
    UNION {{checkpoint_key(content[i].doc_id, config_keywords[k], t) :
               k \in {x \in 1..Len(config_keywords) :
                         /\ config_keywords[x] \in DOMAIN content[i].findings
                         /\ content[i].findings[config_keywords[x]] # <<>>},
               t \in PromptTypeSet} : i \in 1..Len(content)}

\* at the combined save every unit of the call was handed to generate_qa_pairs,
\* but for the ones that were in the completed set when the loop came to them
AllUnitsAttempted ==
    pc = "combine" =>
        \A u \in UnitsOf(masked_content) :
            u \in attempted \/ u \in processed_sections

\* C24 as stated: every process_content call, whatever the requests do, hands
\* every unit outside the completed set to generate_qa_pairs, is not ended by a
\* failure, reaches the combined save of both variants and returns
C24_EveryCallCompletes ==
    /\ []AllUnitsAttempted
    /\ \A n \in 1..MaxCalls :
          (calls = n) ~> (calls = n /\ pc = "idle" /\ CombinedOnceAtEnd(save_log))

\* C24, amended: the same of every call on non-empty content (a call on empty
\* content returns at line 341 without reaching the combined save)
C24_EveryNonEmptyCallCompletes ==
    /\ []AllUnitsAttempted
    /\ \A n \in 1..MaxCalls :
          (calls = n /\ pc # "idle")
              ~> (calls = n /\ pc = "idle" /\ CombinedOnceAtEnd(save_log))

\* the combined save is reached after every request of every unit of two
\* documents failed
C24_AllRequestsFailed ==
    /\ pc = "combine"
    /\ retries = MaxRetries
    /\ Len(masked_content) = 2
    /\ attempted = UnitsOf(masked_content)
    /\ processed_sections = {}

\* C25: a step taken under one prompt type leaves the text, JSON and statistics
\* accumulators of the other type alone and completes no unit of the other
\* type, and a unit outside the completed set is handed to generate_qa_pairs
\* whether or not the same document and keyword are complete under the other
\* type
C25_VariantsIndependent ==
    [][pc # "idle" =>
          /\ \A t \in PromptTypeSet \ {CurType} :
                /\ qa_text'[t] = qa_text[t]
                /\ qa_text_keys'[t] = qa_text_keys[t]
                /\ qa_json'[t] = qa_json[t]
                /\ doc_stats'[t] = doc_stats[t]
          /\ \A u \in processed_sections' \ processed_sections : u[3] = CurType
          /\ (/\ AtKeyword
              /\ CurKeyword \in DOMAIN CurDoc.findings
              /\ CurDoc.findings[CurKeyword] # <<>>
              /\ checkpoint_key(CurDoc.doc_id, CurKeyword, CurType)
                    \notin processed_sections)
                => pc' = "attempting"]_vars

\* a second call requests the default unit of a document and keyword that the
\* first call completed under the alternative prompt only
C25_DefaultRetriedAfterAlternative ==
    /\ calls = 2
    /\ pc = "attempting"
    /\ CurType = "default"
    /\ requests >= 1
    /\ checkpoint_key(CurDoc.doc_id, CurKeyword, "alternative") \in processed_sections
    /\ checkpoint_key(CurDoc.doc_id, CurKeyword, "default") \notin processed_sections
    /\ CurDoc.doc_id \in DOMAIN qa_text["alternative"]
    /\ CurDoc.doc_id \notin DOMAIN qa_text["default"]

RECURSIVE PairCount(_, _)
\* the qa_pairs stored under the keywords kws of one policy document
PairCount(doc, kws) ==
    IF kws = {} THEN 0
    ELSE LET kw == CHOOSE x \in kws : TRUE
         IN  Len(doc[kw].qa_pairs) + PairCount(doc, kws \ {kw})

\* the text entries of a document are as many as the qa_pairs stored under its
\* policy document name
TextMatchesJson ==
    \A t \in PromptTypeSet :
        /\ \A doc_id \in DOMAIN qa_text[t] :
              /\ _get_policy_doc_name(doc_id) \in DOMAIN qa_json[t]
              /\ LET doc == qa_json[t][_get_policy_doc_name(doc_id)]
                 IN  Len(qa_text[t][doc_id]) = PairCount(doc, DOMAIN doc)
        /\ \A name \in DOMAIN qa_json[t] :
              \E doc_id \in DOMAIN qa_text[t] : _get_policy_doc_name(doc_id) = name

\* a step that stores qa_pairs under a keyword appends their texts, in the
\* order of the pairs, to the end of the document's text entries
TextFollowsKeyword ==
    \A t \in PromptTypeSet :
        \A name \in DOMAIN qa_json'[t] :
            \A kw \in DOMAIN qa_json'[t][name] :
                (name \notin DOMAIN qa_json[t] \/ kw \notin DOMAIN qa_json[t][name]) =>
                    LET pairs == qa_json'[t][name][kw].qa_pairs
                        doc_id == CurDoc.doc_id
                        old == IF doc_id \in DOMAIN qa_text[t]
                               THEN qa_text[t][doc_id] ELSE <<>>
                    IN  /\ kw = CurKeyword
                        /\ name = _get_policy_doc_name(doc_id)
                        /\ qa_text'[t][doc_id]
                              = old \o [i \in 1..Len(pairs) |-> QAText(pairs[i])]

\* C29: for every variant and document the number of accumulated text entries
\* equals the number of qa_pairs stored under the document's policy document
\* name across its keywords, and the entries follow the order in which the
\* keywords were processed
C29_TextEntriesMatchJson ==
    /\ []TextMatchesJson
    /\ [][TextFollowsKeyword]_vars

\* both keywords of the first document are recorded under the alternative
\* prompt with two pairs each: four text entries, the same pair of texts twice
C29_TwoKeywordsTwoPairsEach ==
    /\ DocId(1) \in DOMAIN qa_text["alternative"]
    /\ Len(qa_text["alternative"][DocId(1)]) = 4
    /\ qa_text["alternative"][DocId(1)][1] # qa_text["alternative"][DocId(1)][2]
    /\ DOMAIN qa_json["alternative"][_get_policy_doc_name(DocId(1))] = {Fee, Tax}

(***************************************************************************)
(* Properties of the extraction phase (checked under SpecPdf)              *)
(***************************************************************************)

\* the registry keys whose entry carries the file name of a path
EntriesOf(registry, path) ==
    {id \in DOMAIN registry : registry[id].original_filename = Basename(path)}

\* C6: the document ids handed out during one process_directory call are unique
\* and strictly increasing in the order _generate_doc_id returned them,
\* whatever the workers' interleaving
C6_IdsUniqueAndIncreasing ==
    \A i, j \in 1..Len(assigned) :
        i < j => assigned[i].doc_id[2] < assigned[j].doc_id[2]

\* C7: within a call, ids follow the sorted path order of the dispatch: a
\* path that sorts earlier never holds an id that is not smaller
C7_IdsFollowSortedPaths ==
    \A i, j \in TaskIds :
        (i < j /\ tasks[i].doc_id # NoDocId /\ tasks[j].doc_id # NoDocId)
            => tasks[i].doc_id[2] < tasks[j].doc_id[2]

\* C8: when process_directory has returned, every file whose extraction raised
\* is logged, outside the registry and outside processed_files, and every
\* other dispatched file that produced findings has a registry entry
C8_FaultIsolation ==
    returned = "ok" =>
        \A i \in TaskIds :
            /\ tasks[i].state = "failed" =>
                  /\ tasks[i].path \in logged_errors
                  /\ tasks[i].path \notin processed_files
                  /\ EntriesOf(combined_results, tasks[i].path) = {}
            /\ (tasks[i].state = "done" /\ DOMAIN tasks[i].findings # {}) =>
                  EntriesOf(combined_results, tasks[i].path) # {}

\* C9: a path of processed_files has no process_single_pdf call queued or
\* running, is handed no further document id and gains no registry entry
C9_NoSecondExtraction ==
    /\ [](\A i \in TaskIds :
            ~Finished(i) => tasks[i].path \notin processed_files)
    /\ [][\A path \in processed_files :
            /\ \A k \in (Len(assigned) + 1)..Len(assigned') :
                  assigned'[k].path # path
            /\ EntriesOf(combined_results', path)
                  \subseteq EntriesOf(combined_results, path)]_vars

\* C9 witness: the second call dispatched some path while another one, extracted
\* by the first call, was left out
C9_ProcessedPathLeftOut ==
    /\ dir_calls = 2
    /\ dir_pc = "collecting"
    /\ tasks # <<>>
    /\ \E path \in processed_files : \A i \in TaskIds : tasks[i].path # path

\* C10: every registry entry holds at least one keyword, every keyword list in
\* it is non-empty, and a document extracted without findings has no entry
C10_RegistryOnlyWithFindings ==
    /\ \A id \in DOMAIN combined_results :
          /\ DOMAIN combined_results[id].findings # {}
          /\ \A keyword \in DOMAIN combined_results[id].findings :
                combined_results[id].findings[keyword] # <<>>
    /\ \A i \in TaskIds :
          (tasks[i].state = "done" /\ DOMAIN tasks[i].findings = {})
              => EntriesOf(combined_results, tasks[i].path) = {}

\* C10 witness: a document without findings was extracted under an id of its
\* own and the registry holds only the others
C10_PlainDocumentDropped ==
    /\ DOMAIN combined_results # {}
    /\ \E i \in TaskIds :
          /\ tasks[i].state = "done"
          /\ DOMAIN tasks[i].findings = {}
          /\ tasks[i].doc_id \notin DOMAIN combined_results


\* C11: no handle opened by process_single_pdf outlives the call: a task past
\* its extraction loops, returned or raised, holds no open handle, and only
\* running tasks hold one
C11_HandlesClosed ==
    /\ \A i \in TaskIds :
          tasks[i].state \in {"extracted", "done", "failed"} => i \notin open_handles
    /\ open_handles \subseteq {i \in TaskIds : Running(i)}

\* C11 witness: an opened document raised inside the loops and its handle is
\* closed, no other being open
C11_RaisedAndClosed ==
    /\ open_handles = {}
    /\ \E i \in TaskIds :
          /\ tasks[i].state = "failed"
          /\ tasks[i].doc_id # NoDocId
          /\ Parsed(contents[tasks[i].path]).openable

\* C21: when process_directory has returned, every document extracted with
\* findings has the registry entry written under its id, with its own file
\* name and findings: no entry was overwritten by another document's
C21_NoRegistryEntryLost ==
    returned = "ok" =>
        \A i \in TaskIds :
            (tasks[i].state = "done" /\ DOMAIN tasks[i].findings # {}) =>
                /\ tasks[i].doc_id \in DOMAIN combined_results
                /\ combined_results[tasks[i].doc_id].original_filename
                      = Basename(tasks[i].path)
                /\ combined_results[tasks[i].doc_id].findings
                      = tasks[i].findings


(***************************************************************************)
(* Properties of the extraction functions (SpecPage and SpecWindow)        *)
(***************************************************************************)

\* the assembled text of block j of the page, j counted from 0
BlockTextAt(j) == _get_block_text(page_blocks[j + 1])

\* is block j of the page a heading for the forward scan
IsHeadingAt(j) ==
    _is_header(SplitLines(BlockTextAt(j))[1],
               HeaderSpans(page_blocks[j + 1])) = "yes"

\* every occurrence the page produced
PageFindings ==
    UNION {{page_result.findings[kw][k] : k \in 1..Len(page_result.findings[kw])} :
              kw \in DOMAIN page_result.findings}

\* C12: every finding of process_single_pdf has a non-empty selected text that
\* its full context contains
C12_SelectedTextNonEmpty ==
    page_pc = "extracted" =>
        \A f \in PageFindings :
            /\ f.content.selected_text # <<>>
            /\ Contains(f.content.full_extracted_part, f.content.selected_text)

\* C13: the window of _find_keyword_context is absent exactly when the matched
\* block's text lacks the keyword; otherwise it is the join of the texts of
\* blocks with indices in [m-1, m+3] cut to the page, in ascending order, the
\* matched block among them, and nothing follows a heading met after m
C13_WindowBounds ==
    (page_pc = "window" /\ ~window.raised) =>
        LET m == page_block_idx
            idx == window.part_idx
            lo == IF m - 1 < 0 THEN 0 ELSE m - 1
            hi == IF m + 3 > Len(page_blocks) - 1
                  THEN Len(page_blocks) - 1 ELSE m + 3
        IN  /\ window.found <=> Contains(BlockTextAt(m), page_keyword)
            /\ window.found =>
                  /\ \A k \in 1..Len(idx) : idx[k] \in lo..hi
                  /\ \A k \in 1..(Len(idx) - 1) : idx[k] < idx[k + 1]
                  /\ \E k \in 1..Len(idx) : idx[k] = m
                  /\ \A k \in 1..Len(idx) :
                        (idx[k] > m /\ IsHeadingAt(idx[k])) => k = Len(idx)
                  /\ window.text =
                        Join(<<" ">>, [k \in 1..Len(idx) |-> BlockTextAt(idx[k])])

\* C13 witness: a window from the block before the match up to a heading right
\* after it, with a block of text left out behind the heading
C13_StoppedAtHeading ==
    /\ page_pc = "window"
    /\ window.found
    /\ page_block_idx >= 1
    /\ Len(page_blocks) >= page_block_idx + 3
    /\ window.part_idx = <<page_block_idx - 1, page_block_idx, page_block_idx + 1>>
    /\ IsHeadingAt(page_block_idx + 1)
    /\ BlockTextAt(page_block_idx + 2) # <<>>


\* the heading test on the first line of block j alone: its text is upper-case
\* or ends with a colon, or its first span is large or bold
FirstLineIsHeading(j) ==
    LET line == page_blocks[j + 1].lines[1]
        text == LineText(line)
    IN  /\ HasSpans(line)
        /\ text # <<>>
        /\ \/ IsUpper(text)
           \/ EndsWith(RStrip(text), <<":">>)
           \/ line.spans[1].size > 12
           \/ BoldBit(line.spans[1].flags)

\* C26: a following block stops the forward scan exactly when its first line
\* is a heading: nothing follows such a block in the window, and a block with
\* text within the three following blocks is left out only behind one
C26_StopDependsOnFirstLine ==
    (page_pc = "window" /\ window.found) =>
        LET m == page_block_idx
            idx == window.part_idx
            hi == IF m + 3 > Len(page_blocks) - 1
                  THEN Len(page_blocks) - 1 ELSE m + 3
            InWindow(j) == \E k \in 1..Len(idx) : idx[k] = j
        IN  /\ \A j \in (m + 1)..hi :
                  (InWindow(j) /\ FirstLineIsHeading(j)) => j = idx[Len(idx)]
            /\ \A j \in (m + 1)..hi :
                  (BlockTextAt(j) # <<>> /\ ~InWindow(j)) =>
                      \E h \in (m + 1)..(j - 1) : InWindow(h) /\ FirstLineIsHeading(h)

\* C30: a forward scan that stops at a heading has appended the heading's text,
\* which is the last part of the window; a following block without text is
\* left out and does not stop the scan, but uses up one of the three places:
\* no block beyond the third following one is ever in the window
C30_HeadingLastEmptyCounted ==
    (page_pc = "window" /\ window.found) =>
        LET m == page_block_idx
            idx == window.part_idx
            hi == IF m + 3 > Len(page_blocks) - 1
                  THEN Len(page_blocks) - 1 ELSE m + 3
            WithText == {j \in (m + 1)..hi : BlockTextAt(j) # <<>>}
            Headings == {j \in WithText : IsHeadingAt(j)}
            InWindow(j) == \E k \in 1..Len(idx) : idx[k] = j
        IN  /\ \A j \in (m + 1)..(Len(page_blocks) - 1) :
                  InWindow(j) => j \in WithText
            /\ \A j \in Headings :
                  (\A h \in Headings : j <= h) =>
                      /\ idx[Len(idx)] = j
                      /\ EndsWith(window.text, <<" ">> \o BlockTextAt(j))
                      /\ \A w \in WithText : w <= j => InWindow(w)
            /\ Headings = {} => \A w \in WithText : InWindow(w)

\* the block after the match has no text, the next is body text and the third
\* a heading: the window ends with the heading's text and leaves out the
\* block with text behind it, the fourth after the match
C30_EmptyBlockThenHeadingAtLimit ==
    /\ page_pc = "window"
    /\ window.found
    /\ Len(page_blocks) = page_block_idx + 5
    /\ BlockTextAt(page_block_idx + 1) = <<>>
    /\ ~IsHeadingAt(page_block_idx + 2)
    /\ IsHeadingAt(page_block_idx + 3)
    /\ BlockTextAt(page_block_idx + 4) # <<>>
    /\ window.part_idx = <<page_block_idx, page_block_idx + 2, page_block_idx + 3>>

\* the trimmed texts of the lines of a block that have any, in line order
TrimmedLines(block) ==
    LET kept == SelectSeq(block.lines,
                          LAMBDA line : HasSpans(line) /\ LineText(line) # <<>>)
    IN  [k \in 1..Len(kept) |-> LineText(kept[k])]

\* C28: _get_block_text returns the empty string for a block without lines or
\* with empty lines only; otherwise the result is made of the trimmed texts of
\* the non-empty lines, each once and in line order, single spaces between
\* them, the lines behind the last sentence end among them
C28_BlockTextKeepsEveryLine ==
    block_pc = "returned" =>
        /\ (~block_arg.has_lines \/ TrimmedLines(block_arg) = <<>>) => block_text = <<>>
        /\ block_arg.has_lines => block_text = Join(<<" ">>, TrimmedLines(block_arg))

\* a closed sentence, a line without spans and an open trailing line to trim
C28_OpenTrailingLine ==
    /\ block_pc = "returned"
    /\ block_arg.has_lines
    /\ Len(block_arg.lines) = 3
    /\ block_arg.lines[1].spans = <<Span(TextFeeTax)>>
    /\ ~block_arg.lines[2].has_spans
    /\ block_arg.lines[3].spans = <<Span(TextHelloPadded)>>
    /\ block_text = TextFeeTax \o <<" ">> \o TextHello

\* one page value comes before another: by number when both are numeric, as
\* text otherwise
PageBefore(a, b) ==
    IF IsDigit(a) /\ IsDigit(b) THEN IntOf(a) < IntOf(b) ELSE StrLess(a, b)

\* what an occurrence contributes: its full context if it has one, else its
\* selected text
Contribution(occurrence) ==
    IF "content" \notin DOMAIN occurrence THEN <<>>
    ELSE IF occurrence.content.full_extracted_part # <<>>
    THEN occurrence.content.full_extracted_part
    ELSE occurrence.content.selected_text

DefaultValid(pair) ==
    /\ EndsWith(pair.question, QMark)
    /\ (Contains(pair.question, BasedOn) \/ Contains(pair.question, AsPer))
    /\ EndsWith(pair.answer, RParen)

InputLines == NonEmptyStripped(SplitLines(parse_input))

IsQLine(i) == StartsWith(InputLines[i], QPrefix)
IsALine(i) == ~IsQLine(i) /\ StartsWith(InputLines[i], APrefix)

\* what follows the two-character prefix of line i, trimmed
LineBody(i) == Strip(SubSeq(InputLines[i], 3, Len(InputLines[i])))

\* the 'A:' lines between the 'Q:' line i and the next 'Q:' line
AnswersOf(i) ==
    {j \in (i + 1)..Len(InputLines) :
        IsALine(j) /\ \A k \in (i + 1)..j : ~IsQLine(k)}

\* the pair the 'Q:' line i stands for: its question and the last answer given
\* before the next 'Q:' line; none when either is missing or empty or the gate
\* of the variant refuses them
PairOf(i, prompt_type) ==
    IF AnswersOf(i) = {} THEN <<>>
    ELSE LET last == CHOOSE j \in AnswersOf(i) : \A k \in AnswersOf(i) : k <= j
         IN  IF LineBody(i) # <<>> /\ LineBody(last) # <<>>
                   /\ AcceptPair(LineBody(i), LineBody(last), prompt_type)
             THEN << [question |-> LineBody(i), answer |-> LineBody(last)] >>
             ELSE <<>>

RECURSIVE PairsFrom(_, _)
\* the pairs of the 'Q:' lines from line i on, in line order
PairsFrom(i, prompt_type) ==
    IF i > Len(InputLines) THEN <<>>
    ELSE (IF IsQLine(i) THEN PairOf(i, prompt_type) ELSE <<>>)
             \o PairsFrom(i + 1, prompt_type)

C17_ConfigErrorsBeforeProcessing ==
    ~validate(main_config) =>
        /\ main_read = 0
        /\ ~main_requested
        /\ main_pc # "completed"


(***************************************************************************)
(* Properties of mask_sensitive_info (checked under SpecMask)              *)
(***************************************************************************)

\* has the statement of the rule of this name run in the current call
Applied(name) == \E k \in 1..Len(mask_applied) : mask_applied[k] = name

\* C18 as stated: the street-address rule is applied before the bare ZIP rule,
\* and the numeric policy-number rule is applied after both date rules and the
\* ZIP rule
C18_PolicyNumberAfterDatesAndZip ==
    /\ Applied("ZIP") => Applied("ADDRESS")
    /\ Applied("POLICY_NUMBER") =>
           Applied("DATE_MONTH") /\ Applied("DATE_NUMERIC") /\ Applied("ZIP")

\* C18 amended: the street-address rule is applied before the bare ZIP rule, and
\* the numeric policy-number rule is applied after the ZIP rule and before both
\* date rules
C18_PolicyNumberAfterZipBeforeDates ==
    /\ Applied("ZIP") => Applied("ADDRESS")
    /\ Applied("POLICY_NUMBER") => Applied("ZIP")
    /\ Applied("DATE_MONTH") \/ Applied("DATE_NUMERIC")
           => Applied("POLICY_NUMBER")

\* C18 witness: a call on a text with an address, in which the address, ZIP,
\* policy-number and date statements have all run and the address was masked
C18_AllNumericRulesApplied ==
    /\ mask_pass = 1
    /\ mask_input = PieceAddress \o PieceSpace
    /\ Applied("ADDRESS") /\ Applied("ZIP") /\ Applied("POLICY_NUMBER")
    /\ Applied("DATE_MONTH") /\ Applied("DATE_NUMERIC")
    /\ mask_text = AddressToken \o PieceSpace

\* C19: masking is idempotent: while mask_sensitive_info runs on its own
\* result, no statement changes the text, so the second call returns what the
\* first returned
C19_MaskingIdempotent ==
    mask_pass = 2 => mask_text = mask_first

\* C19 witness: the second call has run to its end on a result in which the
\* first call had put tokens of two categories
C19_SecondPassOverTokens ==
    /\ mask_pass = 2
    /\ mask_pc = Len(AllRules) + 1
    /\ mask_input = PieceCompany \o PieceSsn
    /\ mask_first = CompanyToken \o PieceSpace \o SsnToken

=============================================================================
